---- MODULE Spec2Model ----
(***************************************************************************)
(* Large-audio-file transcription pipeline of quick-transcriber-ai:        *)
(* OpenAIService.transcribeAudio, transcribeWithCompression,               *)
(* transcribeAudioInBatches (src/src/services/openai.ts) and               *)
(* chunkAudioFile, combineChunkResults (src/src/utils/file.ts).            *)
(*                                                                         *)
(* One invocation is modelled, and in SpecPair a second one that is        *)
(* suspended at an await while the first runs.  Every await of the code is *)
(* a position of pc; an action is the synchronous code from one await to   *)
(* the next.  Strings that the code inspects character by character (API   *)
(* key, transcripts) are sequences of one-character strings; error         *)
(* messages, which the code only searches with String.includes, are        *)
(* sequences of words.  A progress value is the exact fraction num/den.    *)
(***************************************************************************)
EXTENDS Integers, Sequences, FiniteSets, TLC

\* ------------------------------------------------------------------ bounds
\* Largest number of chunks a modelled oversized file is split into.
MaxChunks == 3
\* Largest file length and chunk size of the stand-alone chunkAudioFile runs.
MaxLen == 9
MaxChunkBytes == 4
\* Largest number of (chunk, transcript) pairs of the stand-alone
\* combineChunkResults runs.
MaxPairs == 3
\* Largest number of transcribeAudio / regenerateSummary calls the app starts.
MaxInvocations == 2
\* Largest number of chunks of the stand-alone estimate computations.
MaxEstimateChunks == 8

\* ------------------------------------------------------- program constants
maxFileSize == 26214400
MinChunkBytes == 1000
\* significand bits of a Number, and the width of the limbs its arithmetic
\* is carried out on
Precision == 53
LimbBits == 15

\* ----------------------------------------------------------------- strings
WS == {" ", "\n"}

RECURSIVE trimStart(_)
trimStart(s) ==
  IF s = <<>> THEN <<>>
  ELSE IF Head(s) \in WS THEN trimStart(Tail(s)) ELSE s

RECURSIVE trimEnd(_)
trimEnd(s) ==
  IF s = <<>> THEN <<>>
  ELSE IF s[Len(s)] \in WS THEN trimEnd(SubSeq(s, 1, Len(s) - 1)) ELSE s

trim_StartOnly(s) == trimStart(s)

\* String.prototype.trim
trim(s) == trimEnd(trimStart(s))

collapseWhitespace_Identity(s) == s

\* String.prototype.replace(/\s+/g, ' '): every maximal run of whitespace
\* becomes one space
RECURSIVE collapseWhitespace(_)
collapseWhitespace(s) ==
  IF s = <<>> THEN <<>>
  ELSE IF Head(s) \in WS
       THEN <<" ">> \o collapseWhitespace(trimStart(s))
       ELSE <<Head(s)>> \o collapseWhitespace(Tail(s))

\* Array.prototype.join(' ')
RECURSIVE join(_)
join(ss) ==
  IF ss = <<>> THEN <<>>
  ELSE IF Len(ss) = 1 THEN ss[1]
  ELSE ss[1] \o <<" ">> \o join(Tail(ss))

\* String.prototype.includes, on word sequences
includes(hay, needle) ==
  \E k \in 0..(Len(hay) - Len(needle)) :
     SubSeq(hay, k + 1, k + Len(needle)) = needle

\* ------------------------------------------------------------------ errors
\* A thrown value: cls is the JavaScript class of the value ("object" for a
\* plain object literal), type and code are "none" when the property is absent.
NoError == [cls |-> "none", message |-> <<>>, type |-> "none", code |-> "none"]

\* `value instanceof Error`
instanceofError(value) == value.cls \in {"Error", "TypeError", "SyntaxError"}

JsError(cls, msg) == [cls |-> cls, message |-> msg, type |-> "none", code |-> "none"]

TranscriptionError(msg, type, code) ==
  [cls |-> "object", message |-> msg, type |-> type, code |-> code]

transcribeAudioCatch_NetworkOnly(error) ==
  IF error.cls = "TypeError" /\ includes(error.message, <<"fetch">>)
  THEN TranscriptionError(<<"Network", "error.", "Please", "check", "your", "connection.">>,
                          "network_error", "none")
  ELSE error

\* catch block of transcribeAudio: the value that leaves transcribeAudio
\* when `error` was thrown inside its try block
transcribeAudioCatch(error) ==
  IF error.cls = "TypeError" /\ includes(error.message, <<"fetch">>)
  THEN TranscriptionError(<<"Network", "error.", "Please", "check", "your", "connection.">>,
                          "network_error", "none")
  ELSE IF instanceofError(error) /\ error.type = "none"
  THEN TranscriptionError(error.message, "validation_error", "none")
  ELSE error

\* catch block of transcribeAudioInBatches
transcribeAudioInBatchesCatch(error) ==
  TranscriptionError(
    <<"Batch", "transcription", "failed:">> \o
       (IF instanceofError(error) THEN error.message
        ELSE <<"Unknown", "error">>),
    "api_error", "none")

isFormatError_Exact(chunkError) ==
  chunkError.message = <<"Invalid", "file", "format">>

\* the test of the per-chunk catch: is the failure tolerated?
isFormatError(chunkError) ==
  \/ includes(chunkError.message, <<"Invalid", "file", "format">>)
  \/ includes(chunkError.message, <<"file", "format">>)

\* ------------------------------------------------------- remote responses
\* Outcomes of one fetch of /audio/transcriptions.
NoText == <<"undefined">>
Texts == { <<>>, <<"a">>, <<" ", "b", "\n", " ", "c", " ">>, NoText }

NoMessage == <<>>
HttpErrors ==
  { [message |-> <<"Invalid", "file", "format">>, code |-> "none"],
    [message |-> <<"Invalid", "file", "format", ".", "Supported", "formats:", "mp3">>, code |-> "none"],
    [message |-> <<"Incorrect", "API", "key", "provided">>, code |-> "invalid_api_key"],
    [message |-> NoMessage, code |-> "none"] }

NetworkErrors == { <<"Failed", "to", "fetch">>, <<"Load", "failed">> }

Responses ==
  [kind : {"ok"}, text : Texts, message : {NoMessage}, code : {"none"}]
  \cup { [kind |-> "http", text |-> NoText, message |-> e.message, code |-> e.code]
         : e \in HttpErrors }
  \cup [kind : {"network"}, text : {NoText}, message : NetworkErrors, code : {"none"}]
  \cup { [kind |-> "malformed", text |-> NoText,
          message |-> <<"Unexpected", "end", "of", "JSON", "input">>, code |-> "none"] }

\* transcribeSingleFile after the fetch settled: the value it throws
transcribeSingleFileError(resp) ==
  IF resp.kind = "network" THEN JsError("TypeError", resp.message)
  ELSE IF resp.kind = "malformed" THEN JsError("SyntaxError", resp.message)
  ELSE TranscriptionError(
         <<"Transcription", "failed:">> \o
            (IF resp.message # NoMessage THEN resp.message ELSE <<"Unknown", "error">>),
         "api_error", resp.code)

\* transcribeSingleFile after the fetch settled: the text it returns
transcribeSingleFileText(resp) == IF resp.text = NoText THEN <<>> ELSE resp.text

\* --------------------------------------------------------------- progress
\* A BatchProgress / ChunkingProgress event; progress is num/den.  The
\* optional estimatedTimeRemaining, which depends on Date.now(), is kept in
\* the variable lastEstimate.
Event(phase, currentChunk, totalChunks, num, den) ==
  [phase |-> phase, currentChunk |-> currentChunk, totalChunks |-> totalChunks,
   progress |-> [num |-> num, den |-> den]]

\* p <= q for two progress values
ProgressLeq(p, q) == p.num * q.den <= q.num * p.den

PhaseOrder == [analyzing |-> 1, chunking |-> 2, processing |-> 3, combining |-> 4]

\* ---------------------------------------------------------- chunkAudioFile
\* Math.ceil(file.size / maxChunkSize)
estimatedChunks(size, maxChunk) == (size + maxChunk - 1) \div maxChunk

\* Math.floor(file.size / estimatedChunks)
chunkSize(size, maxChunk) == size \div estimatedChunks(size, maxChunk)

chunkEnd_NoRemainder(i, n, size, maxChunk) == (i + 1) * chunkSize(size, maxChunk)

\* end offset of chunk i (0-based) of n
chunkEnd(i, n, size, maxChunk) ==
  IF i = n - 1 THEN size ELSE (i + 1) * chunkSize(size, maxChunk)

\* a number of seconds: num / den when den > 0; Infinity and NaN are the
\* two values of that name of a JavaScript number
Seconds(n) == [num |-> n, den |-> 1]

Infinity == [num |-> 1, den |-> 0]

NaN == [num |-> 0, den |-> 0]

\* duration / estimatedChunks, for n >= 1: Infinity / n is Infinity
chunkDuration(dur, n) ==
  IF dur.den = 0 THEN dur ELSE [num |-> dur.num, den |-> dur.den * n]

\* i * chunkDuration, for i >= 0: 0 * Infinity is NaN
chunkStartTime(idx, cd) ==
  IF cd.den = 0
  THEN IF idx = 0 \/ cd.num = 0 THEN NaN ELSE Infinity
  ELSE [num |-> idx * cd.num, den |-> cd.den]

\* the chunk list chunkAudioFile returns for a file of `size` bytes and
\* `dur` seconds: start and bytes are the byte range of chunk.file,
\* startTime and duration are numbers of seconds
chunkAudioFile(size, maxChunk, dur) ==
  LET n == estimatedChunks(size, maxChunk)
  IN [k \in 1..n |->
        LET idx == k - 1
            start == idx * chunkSize(size, maxChunk)
            end == chunkEnd(idx, n, size, maxChunk)
        IN [index |-> idx, start |-> start, bytes |-> end - start,
            startTime |-> chunkStartTime(idx, chunkDuration(dur, n)),
            duration |-> chunkDuration(dur, n)]]

\* progress reported after chunk i (0-based) of n was created
chunkingProgress(i, n) == [num |-> (i + 1) * 100, den |-> n]

\* the onProgress calls of the splitting loop
chunkingEvents(n) ==
  [k \in 1..n |-> Event("chunking", k, n, chunkingProgress(k - 1, n).num,
                                           chunkingProgress(k - 1, n).den)]

\* ----------------------------------------------------- combineChunkResults
\* stable insertion of a {chunk, transcription} pair by chunk.index
RECURSIVE insertByIndex(_, _)
insertByIndex(pair, sorted) ==
  IF sorted = <<>> THEN <<pair>>
  ELSE IF pair.chunk.index < Head(sorted).chunk.index THEN <<pair>> \o sorted
  ELSE <<Head(sorted)>> \o insertByIndex(pair, Tail(sorted))

sortedResults_Unsorted(pairs) == pairs

\* chunks.map(...).sort((a, b) => a.chunk.index - b.chunk.index)
RECURSIVE sortedResults(_)
sortedResults(pairs) ==
  IF pairs = <<>> THEN <<>>
  ELSE insertByIndex(pairs[Len(pairs)], sortedResults(SubSeq(pairs, 1, Len(pairs) - 1)))

\* .map(result => result.transcription.trim()).filter(text => text.length > 0)
RECURSIVE trimmedNonEmpty(_)
trimmedNonEmpty(pairs) ==
  IF pairs = <<>> THEN <<>>
  ELSE LET t == trim(Head(pairs).transcription)
       IN (IF Len(t) > 0 THEN <<t>> ELSE <<>>) \o trimmedNonEmpty(Tail(pairs))

combineLengthMismatch(chs, trs) == Len(chs) # Len(trs)

\* the string combineChunkResults returns when the lengths agree
combineChunkResults(chs, trs) ==
  LET pairs == [k \in 1..Len(chs) |-> [chunk |-> chs[k], transcription |-> trs[k]]]
  IN trim(collapseWhitespace(join(trimmedNonEmpty(sortedResults(pairs)))))

\* =================================================================== state
VARIABLES
  entry,            \* the function the caller invoked
  apiKey,           \* argument apiKey
  hasFile,          \* request.file is set
  fileSize,         \* request.file.size
  maxChunkSize,     \* argument maxChunkSize of chunkAudioFile
  pc,               \* the await the invocation is suspended at
  events,           \* the BatchProgress events delivered so far, in order
  calls,            \* the remote requests submitted so far, in order
  duration,         \* audio.duration once getAudioDuration resolved
  chunks,           \* const chunks
  transcriptions,   \* const transcriptions
  i,                \* loop variable of the chunk loop
  compressedSize,   \* compressedFile.size
  result,           \* TranscriptionResult.text once returned
  error,            \* the value thrown to the caller
  compression,      \* history: "none", "running", "succeeded", "failed"
  compressionError, \* history: the value caught by transcribeWithCompression
  batchEntered,     \* history: transcribeAudioInBatches was called
  batchFirstEvent,  \* history: position in events of its first event
  responses,        \* history: settled remote calls, [index, resp]; index -1
                    \* is the call for the whole or the compressed file
  chunkError,       \* history: the chunkError rethrown by the chunk loop
  clock,            \* milliseconds Date.now() has advanced since the invocation
  startTime,        \* const startTime of transcribeAudioInBatches
  lastEstimate,     \* history: for the latest event of the chunk loop, its
                    \* currentChunk, the Date.now() it was computed at and
                    \* its estimatedTimeRemaining
  state,            \* useTranscription: isLoading, error, results,
                    \* currentFile, batchProgress
  isGeneratingSummary,
  regeneratingIds,
  localStorage,     \* the item stored under STORAGE_KEYS.RESULTS
  isSettingsValid,  \* useSettings().isValid
  saveTimer,        \* the settings dialog: the pending setTimeout of
                    \* handleSave and the key it captured (isValidating)
  invocations,      \* the calls of transcribeAudio and regenerateSummary of
                    \* the hook, in the order they were started
  deleted,          \* history: the ids removeResult and clearResults removed
  suspended         \* the parameters, locals and history of a second
                    \* invocation on openAIService while the other one runs

\* the variables of OpenAIService and of the file utilities
serviceVars ==
  <<entry, apiKey, hasFile, fileSize, maxChunkSize, pc, events, calls,
    duration, chunks, transcriptions, i, compressedSize, result, error,
    compression, compressionError, batchEntered, batchFirstEvent,
    responses, chunkError, clock, startTime, lastEstimate>>

\* the variables of useTranscription, App and storage
appVars == <<state, isGeneratingSummary, regeneratingIds, localStorage,
             isSettingsValid, saveTimer, invocations, deleted>>

vars == <<serviceVars, appVars, suspended>>

NoResult == <<"undefined">>

\* no event of the chunk loop was emitted yet
NoEstimate == [currentChunk |-> 0, now |-> 0, estimatedTimeRemaining |-> 0]

\* ------------------------------------------------------------------ inputs
ApiKeys == { <<>>, <<" ">>, <<"s", "k">> }

\* sizes of the files given to transcribeAudio: the threshold itself, a
\* small file, the 60 MB file of the README, and files of 2..MaxChunks chunks
FileSizes ==
  {500, maxFileSize, 60 * 1024 * 1024}
  \cup { k * maxFileSize + 1 : k \in 1..(MaxChunks - 1) }

\* sizes of the files given to transcribeAudioInBatches directly
BatchFileSizes ==
  {500, 999, 1000}
  \cup { k * maxFileSize + 1 : k \in 1..(MaxChunks - 1) }

\* audio.duration in seconds when loadedmetadata fires: 0 for a file
\* without samples, Infinity for media whose length the container does not
\* state
Durations == {Seconds(0), Seconds(100), Infinity}

\* milliseconds that pass while one chunk request is awaited
Ticks == {1400}

\* size of the re-encoded file
CompressedSizes == {3000000, maxFileSize + 1}

CompressionStages == {"c_import", "c_load", "c_write", "c_exec", "c_read"}

\* ---------------------------------------------- values of the app state
\* context is undefined
NoContext == <<"undefined">>

\* new Date(), Date.prototype.toJSON() and new Date(isoString)
Date(t) == [type |-> "Date", time |-> t]

toJSON(date) == [type |-> "string", time |-> date.time]

newDate(iso) == [type |-> "Date", time |-> iso.time]

\* summary is undefined
NoSummary == [defined |-> FALSE, context |-> NoContext, createdAt |-> Date(0)]

\* batchProgress is undefined
NoProgress == Event("undefined", 0, 0, 0, 1)

\* localStorage.getItem returns null
NoItem == [present |-> FALSE, value |-> <<>>]

\* an entry of invocations: the function called, the await it is at, the
\* id of its result and its context argument, which goes with the call
\* when it returns or throws; large says, while a transcription is awaited,
\* that its file is above maxFileSize; summaryFailed (its generateSummary
\* rejected) is history
Invocation(op, at, resultId, context) ==
  [op |-> op, pc |-> at, resultId |-> resultId, context |-> context,
   large |-> FALSE, summaryFailed |-> FALSE]

\* an entry that is not in use yet
NoInvocation == Invocation("none", "unused", -1, NoContext)

\* there is no second invocation
NoFrame == [pc |-> "none"]

\* the app is not part of a run of the service alone
\* no timer of the settings dialog is pending
NoTimer == [pending |-> FALSE, key |-> <<>>]

InitUnmounted ==
  /\ state = [isLoading |-> FALSE, error |-> NoError, results |-> <<>>,
              currentFile |-> "null", batchProgress |-> NoProgress]
  /\ isGeneratingSummary = FALSE
  /\ regeneratingIds = {}
  /\ localStorage = NoItem
  /\ isSettingsValid = FALSE
  /\ saveTimer = NoTimer
  /\ invocations = [t \in 1..MaxInvocations |-> NoInvocation]
  /\ deleted = {}
  /\ suspended = NoFrame

InitCommon ==
  /\ events = <<>>
  /\ calls = <<>>
  /\ duration = Seconds(0)
  /\ chunks = <<>>
  /\ transcriptions = <<>>
  /\ i = 0
  /\ compressedSize = 0
  /\ result = NoResult
  /\ error = NoError
  /\ compression = "none"
  /\ compressionError = NoError
  /\ batchEntered = FALSE
  /\ batchFirstEvent = 0
  /\ responses = <<>>
  /\ chunkError = NoError
  /\ clock = 0
  /\ startTime = 0
  /\ lastEstimate = NoEstimate

\* a caller is about to call openAIService.transcribeAudio(apiKey, request, cb)
Init ==
  /\ entry = "transcribeAudio"
  /\ apiKey \in ApiKeys
  /\ hasFile \in BOOLEAN
  /\ fileSize \in FileSizes
  /\ maxChunkSize = maxFileSize
  /\ pc = "start"
  /\ InitCommon
  /\ InitUnmounted

\* ------------------------------------------------------- leaving a frame
\* the value the caller receives when `e` leaves transcribeAudioInBatches
LeaveBatch(e) ==
  IF entry = "transcribeAudio" THEN transcribeAudioCatch(e) ELSE e

\* the value the caller receives when `e` is thrown inside chunkAudioFile:
\* its catch block replaces it by Error('Failed to chunk audio file')
LeaveChunking(e) ==
  LET failed == JsError("Error", <<"Failed", "to", "chunk", "audio", "file">>)
  IN IF entry = "chunkAudioFile" THEN failed
     ELSE LeaveBatch(transcribeAudioInBatchesCatch(failed))

\* -------------------------------------------------- transcribeAudioInBatches
\* the synchronous start of transcribeAudioInBatches and chunkAudioFile, up
\* to `await getAudioDuration(file)`
EnterChunking(evs) ==
  /\ events' = Append(evs, Event("analyzing", 0, 0, 0, 1))
  /\ batchFirstEvent' = Len(evs) + 1
  /\ pc' = "b_duration"

skipTinyChunks_Never(k, trs, chs) == [k |-> k, trs |-> trs]

RECURSIVE skipTinyChunks_NoPush(_, _, _)
skipTinyChunks_NoPush(k, trs, chs) ==
  IF k < Len(chs) /\ chs[k + 1].bytes < MinChunkBytes
  THEN skipTinyChunks_NoPush(k + 1, trs, chs)
  ELSE [k |-> k, trs |-> trs]

\* the chunk loop from index k up to the first chunk that is submitted:
\* chunks under MinChunkBytes are skipped with an empty transcription
RECURSIVE skipTinyChunks(_, _, _)
skipTinyChunks(k, trs, chs) ==
  IF k < Len(chs) /\ chs[k + 1].bytes < MinChunkBytes
  THEN skipTinyChunks(k + 1, Append(trs, <<>>), chs)
  ELSE [k |-> k, trs |-> trs]

processingProgress_Remaining(k, n) == [num |-> (n - k - 1) * 100, den |-> n]

\* progress reported after chunk k (0-based) of n settled
processingProgress(k, n) == [num |-> (k + 1) * 100, den |-> n]

\* ------------------------------------------------- Number (IEEE-754 binary64)
\* A positive Number is sig * 2^exp with sig a sequence of Precision bits,
\* most significant first and leading bit 1; 0 has the empty sig. The
\* arithmetic works on limbs of LimbBits bits, so that every intermediate
\* value stays below 2^31.
Number(sig, exp) == [sig |-> sig, exp |-> exp]

Zeros(k) == [j \in 1..k |-> 0]

bitLength(n) ==
  IF n = 0 THEN 0
  ELSE 1 + (CHOOSE k \in 0..30 : 2 ^ k <= n /\ n \div 2 < 2 ^ k)

\* the binary digits of the integer n >= 0
toBits(n) == [j \in 1..bitLength(n) |-> (n \div 2 ^ (bitLength(n) - j)) % 2]

RECURSIVE fromBits(_)
fromBits(bs) ==
  IF bs = <<>> THEN 0 ELSE 2 * fromBits(SubSeq(bs, 1, Len(bs) - 1)) + bs[Len(bs)]

toLimbs(bits) ==
  LET padded == Zeros((LimbBits - (Len(bits) % LimbBits)) % LimbBits) \o bits
  IN [q \in 1..(Len(padded) \div LimbBits) |->
        fromBits(SubSeq(padded, LimbBits * (q - 1) + 1, LimbBits * q))]

limbsToBits(limbs) ==
  [j \in 1..(LimbBits * Len(limbs)) |->
     (limbs[(j - 1) \div LimbBits + 1] \div 2 ^ (LimbBits - 1 - ((j - 1) % LimbBits))) % 2]

\* long division of the limbs by the integer d, 0 < d < 2^16
RECURSIVE divLimbs(_, _)
divLimbs(limbs, d) ==
  IF limbs = <<>> THEN [quot |-> <<>>, rem |-> 0]
  ELSE LET init == divLimbs(SubSeq(limbs, 1, Len(limbs) - 1), d)
           r == init.rem * 2 ^ LimbBits + limbs[Len(limbs)]
       IN [quot |-> Append(init.quot, r \div d), rem |-> r % d]

\* the limbs times the integer m plus carry, 0 <= m < 2^15
RECURSIVE mulLimbs(_, _, _)
mulLimbs(limbs, m, carry) ==
  IF limbs = <<>> THEN <<carry>>
  ELSE LET t == limbs[Len(limbs)] * m + carry
       IN Append(mulLimbs(SubSeq(limbs, 1, Len(limbs) - 1), m, t \div 2 ^ LimbBits),
                 t % 2 ^ LimbBits)

\* the bits plus one
increment(bs) ==
  IF \A j \in 1..Len(bs) : bs[j] = 1 THEN <<1>> \o Zeros(Len(bs))
  ELSE LET p == CHOOSE j \in 1..Len(bs) :
                  bs[j] = 0 /\ \A t \in (j + 1)..Len(bs) : bs[t] = 1
       IN SubSeq(bs, 1, p - 1) \o <<1>> \o Zeros(Len(bs) - p)

\* the Number nearest to bits * 2^exp (plus a positive part below the last
\* bit when inexact), ties to even
roundNumber(bits, exp, inexact) ==
  IF \A j \in 1..Len(bits) : bits[j] = 0 THEN Number(<<>>, 0)
  ELSE LET lead == CHOOSE j \in 1..Len(bits) :
                     bits[j] = 1 /\ \A t \in 1..(j - 1) : bits[t] = 0
           bs == SubSeq(bits, lead, Len(bits))
           len == Len(bs)
       IN IF len <= Precision
          THEN Number(bs \o Zeros(Precision - len), exp - (Precision - len))
          ELSE LET kept == SubSeq(bs, 1, Precision)
                   half == bs[Precision + 1] = 1
                   below == inexact \/ \E j \in (Precision + 2)..len : bs[j] = 1
                   up == half /\ (below \/ kept[Precision] = 1)
                   rounded == IF up THEN increment(kept) ELSE kept
               IN IF Len(rounded) > Precision
                  THEN Number(SubSeq(rounded, 1, Precision),
                              exp + (len - Precision) + 1)
                  ELSE Number(rounded, exp + (len - Precision))

\* the Number of the integer n >= 0
toNumber(n) == roundNumber(toBits(n), 0, FALSE)

\* x / d for an integer d > 0
divide(x, d) ==
  LET extra == bitLength(d) + 2
      q == divLimbs(toLimbs(x.sig \o Zeros(extra)), d)
  IN roundNumber(limbsToBits(q.quot), x.exp - extra, q.rem # 0)

\* x * m for an integer m >= 0
multiply(x, m) ==
  roundNumber(limbsToBits(mulLimbs(toLimbs(x.sig), m, 0)), x.exp, FALSE)

\* Math.ceil(x)
ceil(x) ==
  IF x.sig = <<>> THEN 0
  ELSE IF x.exp >= 0 THEN fromBits(x.sig \o Zeros(x.exp))
  ELSE IF Precision + x.exp <= 0 THEN 1
  ELSE fromBits(SubSeq(x.sig, 1, Precision + x.exp))
       + (IF \E j \in (Precision + x.exp + 1)..Precision : x.sig[j] = 1
          THEN 1 ELSE 0)

\* Math.ceil(avgTimePerChunk * remainingChunks) after chunk k (0-based) of
\* n, with elapsed = (now - start) / 1000, avgTimePerChunk = elapsed / (k + 1)
\* and remainingChunks = n - (k + 1), each operation rounded to a Number
estimatedTimeRemaining(now, start, k, n) ==
  ceil(multiply(divide(divide(toNumber(now - start), 1000), k + 1), n - (k + 1)))

BatchLoop_SubmitAll(k, trs, evs, chs) ==
  LET r == skipTinyChunks(k, trs, chs)
  IN /\ i' = r.k
     /\ transcriptions' = r.trs
     /\ IF r.k < Len(chs)
        THEN /\ calls' = calls \o [j \in 1..(Len(chs) - r.k) |->
                                    [index |-> chs[r.k + j].index,
                                     bytes |-> chs[r.k + j].bytes]]
             /\ events' = evs
             /\ pc' = "b_fetch"
             /\ UNCHANGED <<result, error>>
        ELSE /\ calls' = calls
             /\ events' = Append(evs, Event("combining", Len(chs), Len(chs), 100, 1))
             /\ pc' = "returned"
             /\ result' = combineChunkResults(chs, r.trs)
             /\ error' = error

\* the chunk loop resumed at index k with transcriptions trs and events evs,
\* up to the next await fetch, or through combineChunkResults to the return
BatchLoop(k, trs, evs, chs) ==
  LET r == skipTinyChunks(k, trs, chs)
  IN /\ i' = r.k
     /\ transcriptions' = r.trs
     /\ IF r.k < Len(chs)
        THEN /\ calls' = Append(calls, [index |-> chs[r.k + 1].index,
                                        bytes |-> chs[r.k + 1].bytes])
             /\ events' = evs
             /\ pc' = "b_fetch"
             /\ UNCHANGED <<result, error>>
        ELSE /\ calls' = calls
             /\ events' = Append(evs, Event("combining", Len(chs), Len(chs), 100, 1))
             /\ IF combineLengthMismatch(chs, r.trs)
                THEN /\ pc' = "thrown"
                     /\ error' = LeaveBatch(transcribeAudioInBatchesCatch(
                           JsError("Error", <<"Chunk", "and", "transcription", "arrays",
                                              "must", "have", "the", "same", "length">>)))
                     /\ result' = result
                ELSE /\ pc' = "returned"
                     /\ result' = combineChunkResults(chs, r.trs)
                     /\ error' = error

\* getAudioDuration resolved: chunkAudioFile reports the chunk count and
\* awaits file.arrayBuffer()
DurationLoaded ==
  /\ pc = "b_duration"
  /\ \E d \in Durations : duration' = d
  /\ events' = Append(events, Event("chunking", 0,
                         estimatedChunks(fileSize, maxChunkSize), 0, 1))
  /\ pc' = "b_buffer"
  /\ UNCHANGED <<entry, apiKey, hasFile, fileSize, maxChunkSize, calls, chunks,
                 transcriptions, i, compressedSize, result, error, compression,
                 compressionError, batchEntered, batchFirstEvent, responses,
                 chunkError>>
  /\ UNCHANGED <<appVars, suspended>>
  /\ UNCHANGED <<clock, startTime, lastEstimate>>

\* getAudioDuration rejected or file.arrayBuffer() rejected
ChunkingFailed ==
  /\ pc \in {"b_duration", "b_buffer"}
  /\ pc' = "thrown"
  /\ error' = LeaveChunking(JsError("Error", <<"Failed", "to", "load", "audio", "metadata">>))
  /\ UNCHANGED <<entry, apiKey, hasFile, fileSize, maxChunkSize, events, calls,
                 duration, chunks, transcriptions, i, compressedSize, result,
                 compression, compressionError, batchEntered, batchFirstEvent,
                 responses, chunkError>>
  /\ UNCHANGED <<appVars, suspended>>
  /\ UNCHANGED <<clock, startTime, lastEstimate>>

\* file.arrayBuffer() resolved: chunkAudioFile splits the file, reports
\* every chunk and returns the list; its caller, suspended at
\* `await chunkAudioFile(...)`, resumes in a later microtask
BufferLoaded ==
  /\ pc = "b_buffer"
  /\ LET chs == chunkAudioFile(fileSize, maxChunkSize, duration)
     IN /\ chunks' = chs
        /\ events' = events \o chunkingEvents(Len(chs))
  /\ pc' = IF entry = "chunkAudioFile" THEN "returned" ELSE "b_chunks"
  /\ UNCHANGED <<entry, apiKey, hasFile, fileSize, maxChunkSize, calls, duration,
                 transcriptions, i, compressedSize, result, error, compression,
                 compressionError, batchEntered, batchFirstEvent, responses,
                 chunkError>>
  /\ UNCHANGED <<appVars, suspended>>
  /\ UNCHANGED <<clock, startTime, lastEstimate>>

\* `await chunkAudioFile(...)` resumed in transcribeAudioInBatches: it reads
\* Date.now() into startTime, reports processing 0 and starts the chunk loop
ChunksReceived ==
  /\ pc = "b_chunks"
  /\ BatchLoop(0, <<>>,
               Append(events, Event("processing", 0, Len(chunks), 0, 1)), chunks)
  /\ startTime' = clock
  /\ UNCHANGED <<entry, apiKey, hasFile, fileSize, maxChunkSize, duration, chunks,
                 compressedSize, compression, compressionError, batchEntered,
                 batchFirstEvent, responses, chunkError, clock, lastEstimate>>
  /\ UNCHANGED <<appVars, suspended>>

\* the fetch of chunk i settled: success, tolerated format failure, or a
\* failure that is rethrown and leaves through the catch block
ChunkCallSettled ==
  /\ pc = "b_fetch"
  /\ \E dt \in Ticks :
       LET n == Len(chunks)
           now == clock + dt
           after == Append(events, Event("processing", i + 1, n,
                                         processingProgress(i, n).num,
                                         processingProgress(i, n).den))
           estimated == [currentChunk |-> i + 1, now |-> now,
                         estimatedTimeRemaining |->
                           estimatedTimeRemaining(now, startTime, i, n)]
       IN \E resp \in Responses :
          LET chunkErr == transcribeSingleFileError(resp)
          IN /\ responses' = Append(responses, [index |-> chunks[i + 1].index,
                                                resp |-> resp])
             /\ clock' = now
             /\ IF resp.kind = "ok"
                THEN /\ BatchLoop(i + 1,
                                  Append(transcriptions, transcribeSingleFileText(resp)),
                                  after, chunks)
                     /\ lastEstimate' = estimated
                     /\ chunkError' = chunkError
                ELSE IF isFormatError(chunkErr)
                THEN /\ BatchLoop(i + 1, Append(transcriptions, <<>>), after, chunks)
                     /\ lastEstimate' = estimated
                     /\ chunkError' = chunkError
                ELSE /\ chunkError' = chunkErr
                     /\ pc' = "thrown"
                     /\ error' = LeaveBatch(transcribeAudioInBatchesCatch(chunkErr))
                     /\ UNCHANGED <<events, calls, transcriptions, i, result,
                                    lastEstimate>>
  /\ UNCHANGED <<entry, apiKey, hasFile, fileSize, maxChunkSize, duration, chunks,
                 compressedSize, compression, compressionError, batchEntered,
                 batchFirstEvent, startTime>>
  /\ UNCHANGED <<appVars, suspended>>

\* ------------------------------------------------------------ transcribeAudio
apiKeyMissing_NoTrim(key) == key = <<>>

\* `!apiKey.trim()`
apiKeyMissing(key) == trim(key) = <<>>

needsCompression_Inclusive(size) == size >= maxFileSize

\* `request.file.size > this.maxFileSize`
needsCompression(size) == size > maxFileSize

\* transcribeAudio from its call to its first await: validation, routing by
\* size, and either the start of transcribeWithCompression or the fetch of
\* the direct route
Invoke ==
  /\ pc = "start"
  /\ entry = "transcribeAudio"
  /\ IF apiKeyMissing(apiKey)
     THEN /\ pc' = "thrown"
          /\ error' = transcribeAudioCatch(
                TranscriptionError(<<"API", "key", "is", "required">>, "validation_error", "none"))
          /\ UNCHANGED <<events, calls, compression>>
     ELSE IF ~hasFile
     THEN /\ pc' = "thrown"
          /\ error' = transcribeAudioCatch(
                TranscriptionError(<<"Audio", "file", "is", "required">>, "validation_error", "none"))
          /\ UNCHANGED <<events, calls, compression>>
     ELSE IF needsCompression(fileSize)
     THEN /\ events' = Append(events, Event("analyzing", 0, 1, 0, 1))
          /\ compression' = "running"
          /\ pc' = "c_import"
          /\ UNCHANGED <<calls, error>>
     ELSE /\ calls' = Append(calls, [index |-> -1, bytes |-> fileSize])
          /\ pc' = "direct_fetch"
          /\ UNCHANGED <<events, error, compression>>
  /\ UNCHANGED <<entry, apiKey, hasFile, fileSize, maxChunkSize, duration, chunks,
                 transcriptions, i, compressedSize, result, compressionError,
                 batchEntered, batchFirstEvent, responses, chunkError>>
  /\ UNCHANGED <<appVars, suspended>>
  /\ UNCHANGED <<clock, startTime, lastEstimate>>

\* the fetch of the direct route settled
DirectCallSettled ==
  /\ pc = "direct_fetch"
  /\ \E resp \in Responses :
       /\ responses' = Append(responses, [index |-> -1, resp |-> resp])
       /\ IF resp.kind = "ok"
          THEN /\ pc' = "returned"
               /\ result' = transcribeSingleFileText(resp)
               /\ error' = error
          ELSE /\ pc' = "thrown"
               /\ error' = transcribeAudioCatch(transcribeSingleFileError(resp))
               /\ result' = result
  /\ UNCHANGED <<entry, apiKey, hasFile, fileSize, maxChunkSize, events, calls,
                 duration, chunks, transcriptions, i, compressedSize, compression,
                 compressionError, batchEntered, batchFirstEvent, chunkError>>
  /\ UNCHANGED <<appVars, suspended>>
  /\ UNCHANGED <<clock, startTime, lastEstimate>>

\* --------------------------------------------------- transcribeWithCompression
CompressionCatch_Rethrow(caught) ==
  /\ compressionError' = caught
  /\ pc' = "thrown"
  /\ error' = transcribeAudioCatch(caught)
  /\ UNCHANGED <<batchEntered, batchFirstEvent, events, result>>

CompressionCatch_Retry(caught) ==
  /\ compressionError' = caught
  /\ pc' = "c_import"
  /\ UNCHANGED <<batchEntered, batchFirstEvent, events, error, result>>

\* the catch block of transcribeWithCompression: whatever was thrown inside
\* its try block, call transcribeAudioInBatches
CompressionCatch(caught) ==
  /\ compressionError' = caught
  /\ batchEntered' = TRUE
  /\ EnterChunking(events)
  /\ UNCHANGED <<error, result>>

\* both dynamic imports resolved
EncoderImported ==
  /\ pc = "c_import"
  /\ pc' = "c_load"
  /\ UNCHANGED <<entry, apiKey, hasFile, fileSize, maxChunkSize, events, calls,
                 duration, chunks, transcriptions, i, compressedSize, result, error,
                 compression, compressionError, batchEntered, batchFirstEvent,
                 responses, chunkError>>
  /\ UNCHANGED <<appVars, suspended>>
  /\ UNCHANGED <<clock, startTime, lastEstimate>>

CompressionStep_NoEvent(from, to, percent) ==
  /\ pc = from
  /\ pc' = to
  /\ UNCHANGED <<entry, apiKey, hasFile, fileSize, maxChunkSize, events, calls,
                 duration, chunks, transcriptions, i, compressedSize, result, error,
                 compression, compressionError, batchEntered, batchFirstEvent,
                 responses, chunkError>>
  /\ UNCHANGED <<appVars, suspended>>
  /\ UNCHANGED <<clock, startTime, lastEstimate>>

\* ffmpeg.load(), ffmpeg.writeFile(), ffmpeg.exec() resolved: the next
\* milestone is reported
CompressionStep(from, to, percent) ==
  /\ pc = from
  /\ pc' = to
  /\ events' = Append(events, Event("processing", 0, 1, percent, 1))
  /\ UNCHANGED <<entry, apiKey, hasFile, fileSize, maxChunkSize, calls, duration,
                 chunks, transcriptions, i, compressedSize, result, error,
                 compression, compressionError, batchEntered, batchFirstEvent,
                 responses, chunkError>>
  /\ UNCHANGED <<appVars, suspended>>
  /\ UNCHANGED <<clock, startTime, lastEstimate>>

EncoderLoaded == CompressionStep("c_load", "c_write", 25)

InputWritten == CompressionStep("c_write", "c_exec", 50)

TransformDone == CompressionStep("c_exec", "c_read", 75)

\* ffmpeg.readFile() resolved: compression is complete, the compressed file
\* is submitted with transcribeSingleFile
OutputRead ==
  /\ pc = "c_read"
  /\ \E sz \in CompressedSizes :
       /\ compressedSize' = sz
       /\ calls' = Append(calls, [index |-> -1, bytes |-> sz])
  /\ compression' = "succeeded"
  /\ events' = Append(events, Event("combining", 1, 1, 90, 1))
  /\ pc' = "c_fetch"
  /\ UNCHANGED <<entry, apiKey, hasFile, fileSize, maxChunkSize, duration, chunks,
                 transcriptions, i, result, error, compressionError, batchEntered,
                 batchFirstEvent, responses, chunkError>>
  /\ UNCHANGED <<appVars, suspended>>
  /\ UNCHANGED <<clock, startTime, lastEstimate>>

\* an import, ffmpeg.load, writeFile, exec or readFile rejected
CompressionFailed ==
  /\ pc \in CompressionStages
  /\ compression' = "failed"
  /\ CompressionCatch(JsError("Error", <<"ffmpeg", "failed", "at", pc>>))
  /\ UNCHANGED <<entry, apiKey, hasFile, fileSize, maxChunkSize, calls, duration,
                 chunks, transcriptions, i, compressedSize, responses, chunkError>>
  /\ UNCHANGED <<appVars, suspended>>
  /\ UNCHANGED <<clock, startTime, lastEstimate>>

\* the fetch of the compressed file settled
CompressedCallSettled ==
  /\ pc = "c_fetch"
  /\ \E resp \in Responses :
       /\ responses' = Append(responses, [index |-> -1, resp |-> resp])
       /\ IF resp.kind = "ok"
          THEN /\ events' = Append(events, Event("combining", 1, 1, 100, 1))
               /\ pc' = "returned"
               /\ result' = transcribeSingleFileText(resp)
               /\ UNCHANGED <<error, compressionError, batchEntered, batchFirstEvent>>
          ELSE CompressionCatch(transcribeSingleFileError(resp))
  /\ UNCHANGED <<entry, apiKey, hasFile, fileSize, maxChunkSize, calls, duration,
                 chunks, transcriptions, i, compressedSize, compression, chunkError>>
  /\ UNCHANGED <<appVars, suspended>>
  /\ UNCHANGED <<clock, startTime, lastEstimate>>

Next ==
  \/ Invoke
  \/ DirectCallSettled
  \/ EncoderImported
  \/ EncoderLoaded
  \/ InputWritten
  \/ TransformDone
  \/ OutputRead
  \/ CompressionFailed
  \/ CompressedCallSettled
  \/ DurationLoaded
  \/ ChunkingFailed
  \/ BufferLoaded
  \/ ChunksReceived
  \/ ChunkCallSettled

Spec == Init /\ [][Next]_vars

\* every awaited external call (dynamic import, encoder step, metadata load,
\* buffer read, remote request) eventually resolves or rejects
SpecFair == Spec /\ WF_vars(Next)

\* ------------------------------- two invocations on the one openAIService
\* openAIService is a single instance (openai.ts:791) whose fields, baseUrl,
\* maxFileSize and supportedFormats, are readonly. Everything else an
\* invocation works with is a parameter or a const / let of its own calls,
\* and onProgress is its own callback. Between two awaits an invocation
\* runs alone; at an await the continuation of the other one can run next.

\* the parameters, locals and history of the invocation that is running;
\* Date.now() is the one clock of the page
Frame ==
  [entry |-> entry, apiKey |-> apiKey, hasFile |-> hasFile, fileSize |-> fileSize,
   maxChunkSize |-> maxChunkSize, pc |-> pc, events |-> events, calls |-> calls,
   duration |-> duration, chunks |-> chunks, transcriptions |-> transcriptions,
   i |-> i, compressedSize |-> compressedSize, result |-> result, error |-> error,
   compression |-> compression, compressionError |-> compressionError,
   batchEntered |-> batchEntered, batchFirstEvent |-> batchFirstEvent,
   responses |-> responses, chunkError |-> chunkError, startTime |-> startTime,
   lastEstimate |-> lastEstimate]

\* the frame of an invocation that was not called yet
NewFrame(size) ==
  [entry |-> "transcribeAudio", apiKey |-> <<"s", "k">>, hasFile |-> TRUE,
   fileSize |-> size, maxChunkSize |-> maxFileSize, pc |-> "start",
   events |-> <<>>, calls |-> <<>>, duration |-> Seconds(0), chunks |-> <<>>,
   transcriptions |-> <<>>, i |-> 0, compressedSize |-> 0, result |-> NoResult,
   error |-> NoError, compression |-> "none", compressionError |-> NoError,
   batchEntered |-> FALSE, batchFirstEvent |-> 0, responses |-> <<>>,
   chunkError |-> NoError, startTime |-> 0, lastEstimate |-> NoEstimate]

Resume_SharedFields(own, running) ==
  [own EXCEPT !.transcriptions = running.transcriptions,
              !.startTime = running.startTime]

\* what the continuation of an invocation finds when it resumes, `own`
\* being what it had when it was suspended and `running` what the
\* invocation that ran meanwhile has: its own parameters and locals
Resume(own, running) == own

\* the invocation that is running stays at its await and the continuation
\* of the other one runs
Switch ==
  /\ suspended # NoFrame
  /\ LET resumed == Resume(suspended, Frame)
     IN /\ entry' = resumed.entry
        /\ apiKey' = resumed.apiKey
        /\ hasFile' = resumed.hasFile
        /\ fileSize' = resumed.fileSize
        /\ maxChunkSize' = resumed.maxChunkSize
        /\ pc' = resumed.pc
        /\ events' = resumed.events
        /\ calls' = resumed.calls
        /\ duration' = resumed.duration
        /\ chunks' = resumed.chunks
        /\ transcriptions' = resumed.transcriptions
        /\ i' = resumed.i
        /\ compressedSize' = resumed.compressedSize
        /\ result' = resumed.result
        /\ error' = resumed.error
        /\ compression' = resumed.compression
        /\ compressionError' = resumed.compressionError
        /\ batchEntered' = resumed.batchEntered
        /\ batchFirstEvent' = resumed.batchFirstEvent
        /\ responses' = resumed.responses
        /\ chunkError' = resumed.chunkError
        /\ startTime' = resumed.startTime
        /\ lastEstimate' = resumed.lastEstimate
  /\ suspended' = Frame
  /\ UNCHANGED <<clock, appVars>>

\* the two files: one that goes the direct route, one of two and one of
\* three chunks
PairFileSizes == {maxFileSize, maxFileSize + 1, 2 * maxFileSize + 1}

\* the outcomes of a request in a run of two invocations: a text, a
\* tolerated format failure, a failure that ends the invocation; the
\* files last 100 seconds, and the encoder, if it fails, fails in
\* ffmpeg.exec and otherwise makes a file of 3000000 bytes
PairResponses ==
  { [kind |-> "ok", text |-> <<"a">>, message |-> NoMessage, code |-> "none"],
    [kind |-> "http", text |-> NoText,
     message |-> <<"Invalid", "file", "format">>, code |-> "none"],
    [kind |-> "network", text |-> NoText,
     message |-> <<"Failed", "to", "fetch">>, code |-> "none"] }

PairInputs ==
  /\ \A k \in 1..Len(responses) : responses[k].resp \in PairResponses
  /\ pc = "b_buffer" => duration = Seconds(100)
  /\ compressedSize \in {0, 3000000}
  /\ compression = "failed" =>
       compressionError = JsError("Error", <<"ffmpeg", "failed", "at", "c_exec">>)

\* two callers are about to call openAIService.transcribeAudio, each with a
\* file of its own
InitPair ==
  /\ entry = "transcribeAudio"
  /\ apiKey = <<"s", "k">>
  /\ hasFile = TRUE
  /\ fileSize \in PairFileSizes
  /\ maxChunkSize = maxFileSize
  /\ pc = "start"
  /\ InitCommon
  /\ state = [isLoading |-> FALSE, error |-> NoError, results |-> <<>>,
              currentFile |-> "null", batchProgress |-> NoProgress]
  /\ isGeneratingSummary = FALSE
  /\ regeneratingIds = {}
  /\ localStorage = NoItem
  /\ isSettingsValid = FALSE
  /\ saveTimer = NoTimer
  /\ invocations = [t \in 1..MaxInvocations |-> NoInvocation]
  /\ deleted = {}
  /\ \E size \in PairFileSizes :
       /\ size > fileSize
       /\ suspended = NewFrame(size)

\* a step of the invocation that is running, with the inputs of a pair run,
\* or the other invocation's turn
NextPair ==
  \/ Invoke /\ PairInputs'
  \/ DirectCallSettled /\ PairInputs'
  \/ EncoderImported /\ PairInputs'
  \/ EncoderLoaded /\ PairInputs'
  \/ InputWritten /\ PairInputs'
  \/ TransformDone /\ PairInputs'
  \/ OutputRead /\ PairInputs'
  \/ CompressionFailed /\ PairInputs'
  \/ CompressedCallSettled /\ PairInputs'
  \/ DurationLoaded /\ PairInputs'
  \/ ChunkingFailed /\ PairInputs'
  \/ BufferLoaded /\ PairInputs'
  \/ ChunksReceived /\ PairInputs'
  \/ ChunkCallSettled /\ PairInputs'
  \/ Switch

SpecPair == InitPair /\ [][NextPair]_vars

\* ------------------------------------- transcribeAudioInBatches called alone
InitBatch ==
  /\ entry = "transcribeAudioInBatches"
  /\ apiKey = <<"s", "k">>
  /\ hasFile = TRUE
  /\ fileSize \in BatchFileSizes
  /\ maxChunkSize = maxFileSize
  /\ pc = "b_start"
  /\ InitCommon
  /\ InitUnmounted

BatchInvoke ==
  /\ pc = "b_start"
  /\ batchEntered' = TRUE
  /\ EnterChunking(events)
  /\ UNCHANGED <<entry, apiKey, hasFile, fileSize, maxChunkSize, calls, duration,
                 chunks, transcriptions, i, compressedSize, result, error,
                 compression, compressionError, responses, chunkError>>
  /\ UNCHANGED <<appVars, suspended>>
  /\ UNCHANGED <<clock, startTime, lastEstimate>>

NextBatch ==
  \/ BatchInvoke
  \/ DurationLoaded
  \/ ChunkingFailed
  \/ BufferLoaded
  \/ ChunksReceived
  \/ ChunkCallSettled

SpecBatch == InitBatch /\ [][NextBatch]_vars

\* --------------------------------------------------- chunkAudioFile called alone
InitChunk ==
  /\ entry = "chunkAudioFile"
  /\ apiKey = <<>>
  /\ hasFile = TRUE
  /\ fileSize \in 1..MaxLen
  /\ maxChunkSize \in 1..MaxChunkBytes
  /\ pc = "k_start"
  /\ InitCommon
  /\ InitUnmounted

ChunkInvoke ==
  /\ pc = "k_start"
  /\ EnterChunking(events)
  /\ UNCHANGED <<entry, apiKey, hasFile, fileSize, maxChunkSize, calls, duration,
                 chunks, transcriptions, i, compressedSize, result, error,
                 compression, compressionError, batchEntered, responses, chunkError>>
  /\ UNCHANGED <<appVars, suspended>>
  /\ UNCHANGED <<clock, startTime, lastEstimate>>

NextChunk ==
  \/ ChunkInvoke
  \/ DurationLoaded
  \/ ChunkingFailed
  \/ BufferLoaded

SpecChunk == InitChunk /\ [][NextChunk]_vars

\* ---------------------------------------------- combineChunkResults called alone
\* an AudioChunk of which only the index matters
IndexedChunk(idx) ==
  [index |-> idx, start |-> 0, bytes |-> 0,
   startTime |-> Seconds(0), duration |-> Seconds(0)]

\* the orders in which n pairs can arrive
ArrivalOrders(n) ==
  { f \in [1..n -> 1..n] : \A a, b \in 1..n : f[a] = f[b] => a = b }

CombineTexts ==
  { <<>>, <<" ">>, <<" ", "a", " ", " ", "b", " ">>, <<" ", "c">>,
    <<"H", "e", "l", "l", "o", " ">>, <<"w", "o", "r", "l", "d">>, <<"x", "\n", "y">> }

\* chunks with the indices 0..n-1 in any order, and a transcript list
InitCombine ==
  /\ entry = "combineChunkResults"
  /\ apiKey = <<>>
  /\ hasFile = TRUE
  /\ fileSize = 0
  /\ maxChunkSize = maxFileSize
  /\ pc = "m_start"
  /\ events = <<>>
  /\ calls = <<>>
  /\ duration = Seconds(0)
  /\ \E n \in 0..MaxPairs : \E f \in ArrivalOrders(n) :
        chunks = [k \in 1..n |-> IndexedChunk(f[k] - 1)]
  /\ \E m \in 0..MaxPairs : transcriptions \in [1..m -> CombineTexts]
  /\ i = 0
  /\ compressedSize = 0
  /\ result = NoResult
  /\ error = NoError
  /\ compression = "none"
  /\ compressionError = NoError
  /\ batchEntered = FALSE
  /\ batchFirstEvent = 0
  /\ responses = <<>>
  /\ chunkError = NoError
  /\ clock = 0
  /\ startTime = 0
  /\ lastEstimate = NoEstimate
  /\ InitUnmounted

\* combineChunkResults(chunks, transcriptions): throws on a length mismatch,
\* returns the combined text otherwise
CombineInvoke ==
  /\ pc = "m_start"
  /\ IF combineLengthMismatch(chunks, transcriptions)
     THEN /\ pc' = "thrown"
          /\ error' = JsError("Error", <<"Chunk", "and", "transcription", "arrays",
                                         "must", "have", "the", "same", "length">>)
          /\ result' = result
     ELSE /\ pc' = "returned"
          /\ result' = combineChunkResults(chunks, transcriptions)
          /\ error' = error
  /\ UNCHANGED <<entry, apiKey, hasFile, fileSize, maxChunkSize, events, calls,
                 duration, chunks, transcriptions, i, compressedSize, compression,
                 compressionError, batchEntered, batchFirstEvent, responses,
                 chunkError>>
  /\ UNCHANGED <<appVars, suspended>>
  /\ UNCHANGED <<clock, startTime, lastEstimate>>

NextCombine == CombineInvoke

SpecCombine == InitCombine /\ [][NextCombine]_vars

\* ------------------------------------------------- the estimate on its own
\* milliseconds between the start of a batch and the end of a request
ElapsedTimes == {0, 1, 1500, 4200, 8400, 13800, 60000}

\* chunk i (0-based) of n chunks has just settled, `clock - startTime`
\* milliseconds after the batch started
InitEstimate ==
  /\ entry = "estimatedTimeRemaining"
  /\ apiKey = <<>>
  /\ hasFile = TRUE
  /\ fileSize = 0
  /\ maxChunkSize = maxFileSize
  /\ pc = "e_start"
  /\ events = <<>>
  /\ calls = <<>>
  /\ duration = Seconds(0)
  /\ \E n \in 1..MaxEstimateChunks :
        /\ chunks = [k \in 1..n |-> IndexedChunk(k - 1)]
        /\ i \in 0..(n - 1)
  /\ transcriptions = <<>>
  /\ compressedSize = 0
  /\ result = NoResult
  /\ error = NoError
  /\ compression = "none"
  /\ compressionError = NoError
  /\ batchEntered = FALSE
  /\ batchFirstEvent = 0
  /\ responses = <<>>
  /\ chunkError = NoError
  /\ startTime = 0
  /\ clock \in ElapsedTimes
  /\ lastEstimate = NoEstimate
  /\ InitUnmounted

\* the estimate of the event emitted after chunk i
EstimateInvoke ==
  /\ pc = "e_start"
  /\ pc' = "returned"
  /\ lastEstimate' = [currentChunk |-> i + 1, now |-> clock,
                      estimatedTimeRemaining |->
                        estimatedTimeRemaining(clock, startTime, i, Len(chunks))]
  /\ UNCHANGED <<entry, apiKey, hasFile, fileSize, maxChunkSize, events, calls,
                 duration, chunks, transcriptions, i, compressedSize, result, error,
                 compression, compressionError, batchEntered, batchFirstEvent,
                 responses, chunkError, clock, startTime>>
  /\ UNCHANGED <<appVars, suspended>>

NextEstimate == EstimateInvoke

SpecEstimate == InitEstimate /\ [][NextEstimate]_vars

\* ================================================== storage, useTranscription
\* A TranscriptionResult: of its fields the id, the context, the summary and
\* createdAt are kept; a SummaryData keeps the context it was generated with
\* and its createdAt.
TranscriptionResult(id) ==
  [id |-> id, context |-> NoContext, summary |-> NoSummary, createdAt |-> Date(0)]

SummaryData(context) ==
  [defined |-> TRUE, context |-> context, createdAt |-> Date(0)]

\* JSON.stringify(results): a Date becomes its ISO string
stringify(results) ==
  [k \in 1..Len(results) |->
     [id |-> results[k].id,
      context |-> results[k].context,
      summary |-> IF results[k].summary.defined
                  THEN [results[k].summary EXCEPT !.createdAt = toJSON(@)]
                  ELSE NoSummary,
      createdAt |-> toJSON(results[k].createdAt)]]

\* storage.saveResults(results) when localStorage holds `item`: the item it
\* holds afterwards. setItem can throw (quota exceeded, storage disabled);
\* the catch logs the error and the item stays as it was
saveResults(item, results, throws) ==
  IF throws THEN item ELSE [present |-> TRUE, value |-> stringify(results)]

\* storage.clearResults() when localStorage holds `item`; removeItem can
\* throw, and the catch logs the error
clearResults(item, throws) == IF throws THEN item ELSE NoItem

\* storage.getResults() when localStorage holds `item`
getResults(item) ==
  IF ~item.present THEN <<>>
  ELSE [k \in 1..Len(item.value) |->
          [id |-> item.value[k].id,
           context |-> item.value[k].context,
           summary |-> IF item.value[k].summary.defined
                       THEN [item.value[k].summary EXCEPT !.createdAt = newDate(@)]
                       ELSE NoSummary,
           createdAt |-> newDate(item.value[k].createdAt)]]

ResultIds(results) == { results[k].id : k \in 1..Len(results) }

\* prev.results.filter(result => result.id !== id)
withoutResult(results, id) == SelectSeq(results, LAMBDA r : r.id # id)

\* prev.results.map(result => result.id === transcriptionResult.id
\*   ? { ...result, summary: summaryData, context: context || result.context }
\*   : result)
attachSummary(results, id, summaryData, context) ==
  [k \in 1..Len(results) |->
     IF results[k].id = id
     THEN [results[k] EXCEPT !.summary = summaryData,
                             !.context = IF context # NoContext THEN context ELSE @]
     ELSE results[k]]

\* prev.results.map(r => r.id === resultId ? { ...r, summary: summaryData } : r)
replaceSummary(results, id, summaryData) ==
  [k \in 1..Len(results) |->
     IF results[k].id = id THEN [results[k] EXCEPT !.summary = summaryData]
     ELSE results[k]]

\* results.map(result => result.id === resultId ? { ...result, context } : result)
updateContext(results, id, context) ==
  [k \in 1..Len(results) |->
     IF results[k].id = id THEN [results[k] EXCEPT !.context = context]
     ELSE results[k]]

\* ------------------------------------------------------------------ inputs
\* the trimmed, non-empty context strings the user types
Contexts == { <<"c">> }

\* events the transcription of a file above maxFileSize hands to
\* onBatchProgress after its first await
ProgressEvents == { Event("analyzing", 0, 0, 0, 1), Event("combining", 1, 1, 100, 1) }

\* fetch outcomes that make openAIService.transcribeAudio reject
FailedResponses ==
  { [kind |-> "http", text |-> NoText,
     message |-> <<"Incorrect", "API", "key", "provided">>, code |-> "invalid_api_key"],
    [kind |-> "network", text |-> NoText,
     message |-> <<"Failed", "to", "fetch">>, code |-> "none"],
    [kind |-> "network", text |-> NoText,
     message |-> <<"Load", "failed">>, code |-> "none"] }

\* the errors a failed transcription is rejected with: what the catch of
\* openAIService.transcribeAudio throws for these outcomes
TranscriptionErrors ==
  { transcribeAudioCatch(transcribeSingleFileError(resp)) : resp \in FailedResponses }

\* the API keys typed into the settings dialog
DialogKeys == { <<>>, <<" ">>, <<"s", "k">>, <<"s", "k", "-", "1">> }

\* number of invocations started so far
Started == Cardinality({ t \in 1..MaxInvocations : invocations[t].pc # "unused" })

\* the ids a view of the app can still hold: results[] of the last render
\* and, in selectedResult, a result that was removed since
KnownIds == ResultIds(state.results) \cup deleted

\* App mounts with nothing stored: useState(... results: storage.getResults() ...)
InitApp ==
  /\ entry = "App"
  /\ apiKey = <<"s", "k">>
  /\ hasFile = TRUE
  /\ fileSize = 500
  /\ maxChunkSize = maxFileSize
  /\ pc = "mounted"
  /\ InitCommon
  /\ localStorage = NoItem
  /\ state = [isLoading |-> FALSE, error |-> NoError,
              results |-> getResults(localStorage),
              currentFile |-> "null", batchProgress |-> NoProgress]
  /\ isGeneratingSummary = FALSE
  /\ regeneratingIds = {}
  /\ isSettingsValid \in BOOLEAN
  /\ saveTimer = NoTimer
  /\ invocations = [t \in 1..MaxInvocations |-> NoInvocation]
  /\ deleted = {}
  /\ suspended = NoFrame

\* ------------------------------------------------------ transcribeAudio (hook)
\* handleFileSelect: setCurrentFile(file)
handleFileSelect ==
  /\ state' = [state EXCEPT !.currentFile = "file", !.error = NoError]
  /\ UNCHANGED <<isGeneratingSummary, regeneratingIds, localStorage,
                 isSettingsValid, invocations, deleted>>
  /\ UNCHANGED <<serviceVars, saveTimer, suspended>>

\* handleSelectResult and handleNewRecording: setCurrentFile(null)
handleSelectResult ==
  /\ state' = [state EXCEPT !.currentFile = "null", !.error = NoError]
  /\ UNCHANGED <<isGeneratingSummary, regeneratingIds, localStorage,
                 isSettingsValid, invocations, deleted>>
  /\ UNCHANGED <<serviceVars, saveTimer, suspended>>

\* handleClearError: clearError()
handleClearError ==
  /\ state' = [state EXCEPT !.error = NoError]
  /\ UNCHANGED <<isGeneratingSummary, regeneratingIds, localStorage,
                 isSettingsValid, invocations, deleted>>
  /\ UNCHANGED <<serviceVars, saveTimer, suspended>>

\* validateApiKey(apiKey) of useSettings
validateApiKey(key) ==
  LET trimmed == trim(key)
  IN Len(trimmed) > 0 /\ Len(trimmed) >= 3 /\ SubSeq(trimmed, 1, 3) = <<"s", "k", "-">>

\* updateSettings({ apiKey: key }) of useSettings: the isValid it stores
updateSettings(key) == trim(key) # <<>>

\* resetSettings() of useSettings, which no component calls: isValid is
\* false again
resetSettings ==
  /\ isSettingsValid' = FALSE
  /\ UNCHANGED <<state, isGeneratingSummary, regeneratingIds, localStorage,
                 saveTimer, invocations, deleted>>
  /\ UNCHANGED <<serviceVars, suspended>>

\* handleSave of the settings dialog, up to its return: a blank key is
\* refused; otherwise isValidating is set, which disables the Save button,
\* and the rest is left to a timer that keeps the key of this click
handleSave ==
  /\ ~saveTimer.pending
  /\ \E key \in DialogKeys :
       /\ trim(key) # <<>>
       /\ saveTimer' = [pending |-> TRUE, key |-> key]
  /\ UNCHANGED <<state, isGeneratingSummary, regeneratingIds, localStorage,
                 isSettingsValid, invocations, deleted>>
  /\ UNCHANGED <<serviceVars, suspended>>

\* the setTimeout callback of handleSave, 500 ms after the click: a key
\* that does not pass validateApiKey is refused, any other one goes to
\* onSave = updateSettings; isValidating is cleared
handleSaveTimeout ==
  /\ saveTimer.pending
  /\ saveTimer' = NoTimer
  /\ isSettingsValid' = IF validateApiKey(saveTimer.key)
                        THEN updateSettings(saveTimer.key)
                        ELSE isSettingsValid
  /\ UNCHANGED <<state, isGeneratingSummary, regeneratingIds, localStorage,
                 invocations, deleted>>
  /\ UNCHANGED <<serviceVars, suspended>>

\* handleTranscribe returns at once without a file or without valid
\* settings; otherwise it calls transcribeAudio, which sets isLoading and
\* calls openAIService.transcribeAudio. For a file above maxFileSize the
\* service reports (analyzing, 0 of 1) before its first await, for any other
\* file it reports nothing at all. Neither the handler nor the hook looks
\* at isLoading, so a call can start while another one is awaited
handleTranscribe ==
  /\ state.currentFile # "null"
  /\ isSettingsValid
  /\ Started < MaxInvocations
  /\ \E context \in {NoContext} \cup Contexts, large \in BOOLEAN :
       /\ invocations' = [invocations EXCEPT ![Started + 1] =
             [Invocation("transcribeAudio", "transcribing", -1, context)
                EXCEPT !.large = large]]
       /\ state' = [state EXCEPT
             !.isLoading = TRUE, !.error = NoError,
             !.batchProgress = IF large THEN Event("analyzing", 0, 1, 0, 1)
                               ELSE NoProgress]
  /\ UNCHANGED <<isGeneratingSummary, regeneratingIds, localStorage,
                 isSettingsValid, deleted>>
  /\ UNCHANGED <<serviceVars, saveTimer, suspended>>

\* the service calls onBatchProgress of a transcription that is running
onBatchProgress(t) ==
  /\ invocations[t].pc = "transcribing"
  /\ invocations[t].large
  /\ \E progress \in ProgressEvents :
       state' = [state EXCEPT !.batchProgress = progress]
  /\ UNCHANGED <<isGeneratingSummary, regeneratingIds, localStorage,
                 isSettingsValid, invocations, deleted>>
  /\ UNCHANGED <<serviceVars, saveTimer, suspended>>

\* openAIService.transcribeAudio resolved: the result, with a fresh id, is
\* put at the head of results and saved, and generateSummary is awaited
TranscriptionResolved(t) ==
  /\ invocations[t].pc = "transcribing"
  /\ LET context == invocations[t].context
         transcriptionResult == [TranscriptionResult(t) EXCEPT !.context = context]
         newResults == <<transcriptionResult>> \o state.results
     IN /\ \E throws \in BOOLEAN :
             localStorage' = saveResults(localStorage, newResults, throws)
        /\ state' = [state EXCEPT !.isLoading = FALSE, !.results = newResults,
                                  !.currentFile = "null",
                                  !.batchProgress = NoProgress]
  /\ isGeneratingSummary' = TRUE
  /\ invocations' = [invocations EXCEPT ![t].pc = "summary", ![t].resultId = t,
                                        ![t].large = FALSE]
  /\ UNCHANGED <<regeneratingIds, isSettingsValid, deleted>>
  /\ UNCHANGED <<serviceVars, saveTimer, suspended>>

\* openAIService.transcribeAudio rejected: the outer catch stores the error
\* and rethrows; handleTranscribe logs it
TranscriptionRejected(t) ==
  /\ invocations[t].pc = "transcribing"
  /\ \E e \in TranscriptionErrors :
       state' = [state EXCEPT !.isLoading = FALSE, !.error = e,
                              !.batchProgress = NoProgress]
  /\ isGeneratingSummary' = FALSE
  /\ invocations' = [invocations EXCEPT ![t].context = NoContext, ![t].pc = "thrown",
                                        ![t].large = FALSE]
  /\ UNCHANGED <<regeneratingIds, localStorage, isSettingsValid, deleted>>
  /\ UNCHANGED <<serviceVars, saveTimer, suspended>>

\* generateSummary resolved: the summary is attached to the result with the
\* id of this transcription, the list is saved, transcribeAudio returns
SummaryResolved(t) ==
  /\ invocations[t].pc = "summary"
  /\ LET id == invocations[t].resultId
         context == invocations[t].context
         newResults == attachSummary(state.results, id, SummaryData(context), context)
     IN /\ \E throws \in BOOLEAN :
             localStorage' = saveResults(localStorage, newResults, throws)
        /\ state' = [state EXCEPT !.results = newResults]
        /\ invocations' = [invocations EXCEPT ![t].context = NoContext, ![t].pc = "returned"]
  /\ isGeneratingSummary' = FALSE
  /\ UNCHANGED <<regeneratingIds, isSettingsValid, deleted>>
  /\ UNCHANGED <<serviceVars, saveTimer, suspended>>

\* generateSummary rejected: the inner catch logs the error and
\* transcribeAudio returns the transcription result
SummaryRejected(t) ==
  /\ invocations[t].pc = "summary"
  /\ isGeneratingSummary' = FALSE
  /\ invocations' = [invocations EXCEPT ![t].context = NoContext, ![t].pc = "returned",
                                        ![t].summaryFailed = TRUE]
  /\ UNCHANGED <<state, regeneratingIds, localStorage, isSettingsValid, deleted>>
  /\ UNCHANGED <<serviceVars, saveTimer, suspended>>

\* ---------------------------------------------------- removeResult, clearResults
\* handleRemoveResult: removeResult(id)
handleRemoveResult ==
  /\ \E id \in KnownIds :
       LET newResults == withoutResult(state.results, id)
       IN /\ \E throws \in BOOLEAN :
               localStorage' = saveResults(localStorage, newResults, throws)
          /\ state' = [state EXCEPT !.results = newResults]
          /\ deleted' = deleted \cup ({id} \cap ResultIds(state.results))
  /\ UNCHANGED <<isGeneratingSummary, regeneratingIds, isSettingsValid, invocations>>
  /\ UNCHANGED <<serviceVars, saveTimer, suspended>>

\* handleClearAllResults, confirmed: clearResults()
handleClearAllResults ==
  /\ state' = [state EXCEPT !.results = <<>>]
  /\ \E throws \in BOOLEAN : localStorage' = clearResults(localStorage, throws)
  /\ deleted' = deleted \cup ResultIds(state.results)
  /\ UNCHANGED <<isGeneratingSummary, regeneratingIds, isSettingsValid, invocations>>
  /\ UNCHANGED <<serviceVars, saveTimer, suspended>>

\* ------------------------------------------------------------ regenerateSummary
\* regenerateSummary(resultId, apiKey, context) up to its await: it throws
\* 'Transcription result not found', which the handlers of App log, or
\* marks the id as regenerating and awaits generateSummary
regenerateSummary(id, context) ==
  IF id \notin ResultIds(state.results)
  THEN UNCHANGED <<invocations, regeneratingIds>>
  ELSE /\ invocations' = [invocations EXCEPT ![Started + 1] =
            Invocation("regenerateSummary", "regenerating", id, context)]
       /\ regeneratingIds' = regeneratingIds \cup {id}

\* handleRegenerateSummary(resultId)
handleRegenerateSummary ==
  /\ isSettingsValid
  /\ Started < MaxInvocations
  /\ \E id \in KnownIds : regenerateSummary(id, NoContext)
  /\ UNCHANGED <<state, isGeneratingSummary, localStorage, isSettingsValid, deleted>>
  /\ UNCHANGED <<serviceVars, saveTimer, suspended>>

\* handleUpdateContext(resultId, context): the list with the new context is
\* written to storage; the results of the hook are not touched
handleUpdateContext ==
  /\ \E id \in KnownIds, context \in Contexts, throws \in BOOLEAN :
       localStorage' = saveResults(localStorage,
                                   updateContext(state.results, id, context), throws)
  /\ UNCHANGED <<state, isGeneratingSummary, regeneratingIds, isSettingsValid,
                 invocations, deleted>>
  /\ UNCHANGED <<serviceVars, saveTimer, suspended>>

\* handleRegenerateWithContext(resultId, context): handleUpdateContext, then
\* regenerateSummary with the context
handleRegenerateWithContext ==
  /\ isSettingsValid
  /\ Started < MaxInvocations
  /\ \E id \in KnownIds, context \in Contexts, throws \in BOOLEAN :
       /\ localStorage' = saveResults(localStorage,
                                      updateContext(state.results, id, context), throws)
       /\ regenerateSummary(id, context)
  /\ UNCHANGED <<state, isGeneratingSummary, isSettingsValid, deleted>>
  /\ UNCHANGED <<serviceVars, saveTimer, suspended>>

\* generateSummary resolved inside regenerateSummary: the summary of the
\* result is replaced, the list is saved, the id stops regenerating
RegenerationResolved(t) ==
  /\ invocations[t].pc = "regenerating"
  /\ LET id == invocations[t].resultId
         newResults == replaceSummary(state.results, id,
                                      SummaryData(invocations[t].context))
     IN /\ \E throws \in BOOLEAN :
             localStorage' = saveResults(localStorage, newResults, throws)
        /\ state' = [state EXCEPT !.results = newResults]
        /\ regeneratingIds' = regeneratingIds \ {id}
        /\ invocations' = [invocations EXCEPT ![t].context = NoContext, ![t].pc = "returned"]
  /\ UNCHANGED <<isGeneratingSummary, isSettingsValid, deleted>>
  /\ UNCHANGED <<serviceVars, saveTimer, suspended>>

\* generateSummary rejected inside regenerateSummary: rethrown after the
\* finally block removed the id from regeneratingIds
RegenerationRejected(t) ==
  /\ invocations[t].pc = "regenerating"
  /\ regeneratingIds' = regeneratingIds \ {invocations[t].resultId}
  /\ invocations' = [invocations EXCEPT ![t].context = NoContext, ![t].pc = "thrown"]
  /\ UNCHANGED <<state, isGeneratingSummary, localStorage, isSettingsValid, deleted>>
  /\ UNCHANGED <<serviceVars, saveTimer, suspended>>

NextApp ==
  \/ handleSave
  \/ handleSaveTimeout
  \/ resetSettings
  \/ handleFileSelect
  \/ handleSelectResult
  \/ handleClearError
  \/ handleTranscribe
  \/ \E t \in 1..MaxInvocations : onBatchProgress(t)
  \/ \E t \in 1..MaxInvocations : TranscriptionResolved(t)
  \/ \E t \in 1..MaxInvocations : TranscriptionRejected(t)
  \/ \E t \in 1..MaxInvocations : SummaryResolved(t)
  \/ \E t \in 1..MaxInvocations : SummaryRejected(t)
  \/ handleRemoveResult
  \/ handleClearAllResults
  \/ handleRegenerateSummary
  \/ handleUpdateContext
  \/ handleRegenerateWithContext
  \/ \E t \in 1..MaxInvocations : RegenerationResolved(t)
  \/ \E t \in 1..MaxInvocations : RegenerationRejected(t)

SpecApp == InitApp /\ [][NextApp]_vars

\* ================================================================== claims
\* helpers of the claims
Terminal == pc \in {"returned", "thrown"}

ChunkCalls == SelectSeq(calls, LAMBDA c : c.index >= 0)

ProcessingEvents == SelectSeq(events, LAMBDA e : e.phase = "processing")

CombiningEmitted == \E k \in 1..Len(events) : events[k].phase = "combining"

\* the remote rejected the upload because of its file format
FormatFailure(resp) ==
  resp.kind = "http" /\ includes(resp.message, <<"file", "format">>)

RECURSIVE SumBytes(_)
SumBytes(chs) == IF chs = <<>> THEN 0 ELSE Head(chs).bytes + SumBytes(Tail(chs))

\* the settled call of the chunk with index idx
ResponseOf(idx) ==
  (CHOOSE r \in {responses[k] : k \in 1..Len(responses)} : r.index = idx).resp

\* C1: once compression has succeeded and the compressed file is submitted,
\* a failure of that call propagates with no fallback: the chunking route is
\* entered, and a chunk is submitted, only when compression itself failed.
C1_NoFallbackAfterCompression ==
  /\ batchEntered => compression = "failed"
  /\ Len(ChunkCalls) > 0 => compression = "failed"
  /\ (compression = "succeeded" /\ compressionError # NoError) =>
        (pc = "thrown" /\ error = transcribeAudioCatch(compressionError))

\* C2: a failure of compression is never thrown to the caller of
\* transcribeAudio; the invocation continues with the chunking route, and it
\* ends by throwing only if chunking or a chunk call failed, otherwise it
\* returns the combined transcript of all chunks.
C2_CompressionFailureFallsBack ==
  compression = "failed" =>
    /\ batchEntered
    /\ pc \in {"b_duration", "b_buffer", "b_chunks", "b_fetch", "returned", "thrown"}
    /\ error \notin {compressionError, transcribeAudioCatch(compressionError)}
    /\ pc = "thrown" =>
         \/ chunks = <<>>
         \/ \E k \in 1..Len(responses) : responses[k].resp.kind # "ok"
    /\ pc = "returned" =>
         /\ Len(chunks) = estimatedChunks(fileSize, maxFileSize)
         /\ Len(transcriptions) = Len(chunks)
         /\ result = combineChunkResults(chunks, transcriptions)

C2_Witness ==
  /\ compression = "failed"
  /\ pc = "returned"
  /\ Len(responses) = Len(chunks)
  /\ \A k \in 1..Len(responses) : responses[k].resp.kind = "ok"
  /\ result = <<"a", " ", "b", " ", "c">>

\* C3: a chunk call that fails with an error that is not a format error
\* makes the batch call throw that same error at once: no later chunk is
\* submitted, nothing is combined, nothing is returned.
C3_FatalChunkErrorRethrown ==
  chunkError # NoError =>
    /\ pc = "thrown"
    /\ error = chunkError
    /\ result = NoResult
    /\ ~CombiningEmitted
    /\ \A k \in 1..Len(calls) : calls[k].index <= responses[Len(responses)].index

\* C4: a chunk call that fails with a format error is tolerated: the empty
\* string is recorded at the chunk's index, the loop goes on with the next
\* chunk, and the batch is not thrown because of it.
C4_FormatFailureTolerated ==
  \A j \in 1..Len(responses) :
    FormatFailure(responses[j].resp) =>
      /\ Len(transcriptions) > responses[j].index
      /\ transcriptions[responses[j].index + 1] = <<>>
      /\ Len(ProcessingEvents) > j
      /\ ProcessingEvents[j + 1].currentChunk = responses[j].index + 1
      /\ j = Len(responses) =>
            /\ pc \in {"b_fetch", "returned"}
            /\ pc = "b_fetch" => i = responses[j].index + 1
            /\ pc = "returned" => responses[j].index = Len(chunks) - 1
      /\ pc = "thrown" => (j < Len(responses) /\ chunkError # NoError)

C4_Witness ==
  /\ pc = "returned"
  /\ Len(chunks) = 3
  /\ FormatFailure(ResponseOf(1))
  /\ ResponseOf(0).kind = "ok"
  /\ ResponseOf(2).kind = "ok"
  /\ result = <<"a", " ", "b", " ", "c">>

\* C5: the phases of the events of one transcribeAudio invocation only move
\* forward in the order analyzing, chunking, processing, combining.
C5_PhasesOnlyMoveForward ==
  \A a, b \in 1..Len(events) :
    a < b => PhaseOrder[events[a].phase] <= PhaseOrder[events[b].phase]

\* C6: of two events of the same phase of one transcribeAudio invocation,
\* the later one has the greater or equal progress.
C6_ProgressMonotoneInPhase ==
  \A a, b \in 1..Len(events) :
    (a < b /\ events[a].phase = events[b].phase) =>
       ProgressLeq(events[a].progress, events[b].progress)

\* C7 as stated: over the whole event sequence of a run of the chunking
\* route, progress never decreases, across phase changes as well.
C7_ProgressNeverRegresses ==
  \A a, b \in 1..Len(events) :
    a < b => ProgressLeq(events[a].progress, events[b].progress)

\* C7 as amended: over a run of the chunking route, progress never decreases
\* from one event to the next except at the single change from the chunking
\* phase to the processing phase, where it restarts at 0.
C7_ProgressRestartsOnlyAtProcessing ==
  \A a \in 1..(Len(events) - 1) :
    \/ ProgressLeq(events[a].progress, events[a + 1].progress)
    \/ /\ events[a].phase = "chunking"
       /\ events[a + 1].phase = "processing"
       /\ events[a + 1].currentChunk = 0
       /\ events[a + 1].progress.num = 0

C7_Witness ==
  /\ pc = "returned"
  /\ Len(chunks) = 3
  /\ Len(ProcessingEvents) = 4
  /\ events[Len(events)].phase = "combining"

\* C8: over a full run of transcribeAudioInBatches on N chunks, the
\* currentChunk values of the processing events are exactly 0, 1, ..., N,
\* all with totalChunks = N.
C8_CurrentChunkCountsEveryChunk ==
  pc = "returned" =>
    /\ Len(ProcessingEvents) = Len(chunks) + 1
    /\ \A k \in 1..Len(ProcessingEvents) :
         /\ ProcessingEvents[k].currentChunk = k - 1
         /\ ProcessingEvents[k].totalChunks = Len(chunks)

\* C9: chunkAudioFile returns N = ceil(L / M) chunks with indices 0..N-1
\* whose byte ranges are contiguous and cover the file: all but the last
\* have floor(L / N) bytes, the last has the rest, the lengths sum to L.
C9_ChunksPartitionFile ==
  (entry = "chunkAudioFile" /\ pc = "returned") =>
    LET n == Len(chunks)
    IN /\ n >= 1
       /\ n * maxChunkSize >= fileSize
       /\ (n - 1) * maxChunkSize < fileSize
       /\ \A k \in 1..n : chunks[k].index = k - 1
       /\ chunks[1].start = 0
       /\ \A k \in 1..(n - 1) :
            /\ chunks[k + 1].start = chunks[k].start + chunks[k].bytes
            /\ chunks[k].bytes = fileSize \div n
       /\ chunks[n].start + chunks[n].bytes = fileSize
       /\ chunks[n].bytes = fileSize - (n - 1) * (fileSize \div n)
       /\ SumBytes(chunks) = fileSize

C9_Witness ==
  /\ entry = "chunkAudioFile"
  /\ pc = "returned"
  /\ Len(chunks) = 3
  /\ chunks[3].bytes > chunks[1].bytes

\* C10: when transcribeAudioInBatches reaches combineChunkResults the
\* transcript list has one entry per chunk, and entry i is the outcome of
\* the chunk with index i: the returned text, or the empty string for a
\* skipped chunk or a tolerated failure.
C10_TranscriptsAlignedWithChunks ==
  CombiningEmitted =>
    /\ Len(transcriptions) = Len(chunks)
    /\ \A k \in 1..Len(chunks) :
         /\ chunks[k].index = k - 1
         /\ IF chunks[k].bytes < MinChunkBytes
            THEN /\ transcriptions[k] = <<>>
                 /\ \A j \in 1..Len(responses) : responses[j].index # k - 1
            ELSE /\ Cardinality({j \in 1..Len(responses) : responses[j].index = k - 1}) = 1
                 /\ LET resp == ResponseOf(k - 1)
                    IN transcriptions[k] =
                         IF resp.kind = "ok" /\ resp.text # NoText THEN resp.text ELSE <<>>

C10_Witness ==
  /\ CombiningEmitted
  /\ Len(chunks) = 3
  /\ ResponseOf(0) \in { r \in Responses : r.kind = "ok" /\ r.text = <<"a">> }
  /\ FormatFailure(ResponseOf(1))
  /\ ResponseOf(2).kind = "ok"
  /\ transcriptions[3] = <<" ", "b", "\n", " ", "c", " ">>

C10_WitnessSkipped ==
  /\ CombiningEmitted
  /\ Len(chunks) = 1
  /\ chunks[1].bytes < MinChunkBytes
  /\ transcriptions = << <<>> >>

\* C11: a chunk of fewer than 1000 bytes is never submitted to the remote
\* endpoint; the empty string is recorded at its index and the loop goes on
\* with the next chunk (here: to the combining step), from the moment the
\* loop has started.
C11_TinyChunkNeverSubmitted ==
  /\ \A c \in 1..Len(calls) : calls[c].bytes >= 1000
  /\ \A k \in 1..Len(chunks) :
       (chunks[k].bytes < 1000 /\ pc # "b_chunks") =>
         /\ \A c \in 1..Len(calls) : calls[c].index # chunks[k].index
         /\ Len(transcriptions) >= k
         /\ transcriptions[k] = <<>>
         /\ i >= k
         /\ pc # "thrown"

C11_Witness ==
  /\ Len(chunks) = 1
  /\ chunks[1].bytes = 999
  /\ pc = "returned"
  /\ calls = <<>>
  /\ transcriptions = << <<>> >>
  /\ result = <<>>

\* helpers of C12: the words of a string, without the model's trim and join
IsSpace(c) == c = " " \/ c = "\n"

RECURSIVE FirstWord(_)
FirstWord(s) ==
  IF s = <<>> \/ IsSpace(Head(s)) THEN <<>> ELSE <<Head(s)>> \o FirstWord(Tail(s))

RECURSIVE Words(_)
Words(s) ==
  IF s = <<>> THEN <<>>
  ELSE IF IsSpace(Head(s)) THEN Words(Tail(s))
  ELSE LET w == FirstWord(s)
       IN <<w>> \o Words(SubSeq(s, Len(w) + 1, Len(s)))

\* the transcript paired with the chunk of index idx
TranscriptOf(chs, trs, idx) ==
  trs[CHOOSE k \in 1..Len(chs) : chs[k].index = idx]

RECURSIVE WordsFrom(_, _, _)
WordsFrom(chs, trs, idx) ==
  IF idx >= Len(chs) THEN <<>>
  ELSE Words(TranscriptOf(chs, trs, idx)) \o WordsFrom(chs, trs, idx + 1)

RECURSIVE SpaceSeparated(_)
SpaceSeparated(ws) ==
  IF ws = <<>> THEN <<>>
  ELSE IF Tail(ws) = <<>> THEN Head(ws)
  ELSE Head(ws) \o <<" ">> \o SpaceSeparated(Tail(ws))

\* C12: combineChunkResults returns the transcripts in chunk-index order,
\* each trimmed, the empty ones dropped, joined by one space, whitespace
\* runs collapsed, trimmed: that is the words of the transcripts in index
\* order separated by single spaces.  [" a  b ", "", " c"] gives "a b c" and
\* ["Hello ", "", "world"] gives "Hello world".
C12_CombineIsReference ==
  (entry = "combineChunkResults" /\ pc = "returned") =>
    /\ result = SpaceSeparated(WordsFrom(chunks, transcriptions, 0))
    /\ (/\ \A k \in 1..Len(chunks) : chunks[k].index = k - 1
        /\ transcriptions = << <<" ", "a", " ", " ", "b", " ">>, <<>>, <<" ", "c">> >>)
         => result = <<"a", " ", "b", " ", "c">>
    /\ (/\ \A k \in 1..Len(chunks) : chunks[k].index = k - 1
        /\ transcriptions = << <<"H", "e", "l", "l", "o", " ">>, <<>>,
                               <<"w", "o", "r", "l", "d">> >>)
         => result = <<"H", "e", "l", "l", "o", " ", "w", "o", "r", "l", "d">>

C12_Witness ==
  /\ entry = "combineChunkResults"
  /\ pc = "returned"
  /\ \A k \in 1..Len(chunks) : chunks[k].index = k - 1
  /\ transcriptions = << <<" ", "a", " ", " ", "b", " ">>, <<>>, <<" ", "c">> >>
  /\ result = <<"a", " ", "b", " ", "c">>

\* C13: combineChunkResults does not depend on the arrival order: the
\* pairs passed in any other order give the string that was returned.
C13_CombineIgnoresArrivalOrder ==
  (entry = "combineChunkResults" /\ pc = "returned") =>
    \A f \in ArrivalOrders(Len(chunks)) :
      combineChunkResults([k \in 1..Len(chunks) |-> chunks[f[k]]],
                          [k \in 1..Len(chunks) |-> transcriptions[f[k]]]) = result

C13_Witness ==
  /\ entry = "combineChunkResults"
  /\ pc = "returned"
  /\ Len(chunks) = 3
  /\ chunks[1].index = 2 /\ chunks[2].index = 0 /\ chunks[3].index = 1
  /\ transcriptions = << <<" ", "c">>, <<"H", "e", "l", "l", "o", " ">>, <<"x", "\n", "y">> >>
  /\ result = <<"H", "e", "l", "l", "o", " ", "x", " ", "y", " ", "c">>

\* helpers of C14..C17
NotBlank(key) == \E k \in 1..Len(key) : ~IsSpace(key[k])

ValidArguments == NotBlank(apiKey) /\ hasFile

ErrorTypes == {"api_error", "file_error", "network_error", "validation_error"}

\* C14: transcribeAudio routes by size alone.  A file of at most 25 MiB
\* (26214400 bytes, boundary included) makes exactly one remote call, for the
\* whole file, never starts the encoder or chunking, emits no event, and a
\* failure of the call leaves with no fallback; a larger file always starts
\* with the compression attempt and reaches chunking only through its catch.
C14_RoutedBySizeAlone ==
  (entry = "transcribeAudio" /\ pc # "start" /\ ValidArguments) =>
    IF fileSize <= 26214400
    THEN /\ compression = "none"
         /\ ~batchEntered
         /\ events = <<>>
         /\ chunks = <<>>
         /\ calls = <<[index |-> -1, bytes |-> fileSize]>>
         /\ pc \in {"direct_fetch", "returned", "thrown"}
         /\ pc = "direct_fetch" => responses = <<>>
         /\ pc = "returned" => (Len(responses) = 1 /\ responses[1].resp.kind = "ok")
         /\ pc = "thrown" => (Len(responses) = 1 /\ responses[1].resp.kind # "ok")
    ELSE /\ compression # "none"
         /\ events # <<>>
         /\ events[1] = Event("analyzing", 0, 1, 0, 1)
         /\ batchEntered => compressionError # NoError

C14_Witness ==
  /\ entry = "transcribeAudio"
  /\ fileSize = 26214400
  /\ pc = "thrown"
  /\ Len(calls) = 1
  /\ events = <<>>

\* C15: after a remote call failed with a network error, on whatever route,
\* the invocation makes no further remote call and ends with that failure
\* as transcribeAudio reports a network failure of a single call.
C15_NetworkFailureSurfaced ==
  entry = "transcribeAudio" =>
    \A j \in 1..Len(responses) :
      responses[j].resp.kind = "network" =>
        /\ j = Len(responses)
        /\ Len(calls) = j
        /\ pc = "thrown"
        /\ error = transcribeAudioCatch(transcribeSingleFileError(responses[j].resp))

\* C16: with an empty or whitespace-only API key, or with no file,
\* transcribeAudio fails at once with a validation_error: no remote call,
\* no encoder, no chunk, no progress event, whatever the file size.
C16_InvalidArgumentsFailAtOnce ==
  (entry = "transcribeAudio" /\ pc # "start" /\ ~ValidArguments) =>
    /\ pc = "thrown"
    /\ error.cls = "object"
    /\ error.type = "validation_error"
    /\ calls = <<>>
    /\ events = <<>>
    /\ chunks = <<>>
    /\ compression = "none"
    /\ ~batchEntered

C16_Witness ==
  /\ entry = "transcribeAudio"
  /\ apiKey = <<" ">>
  /\ hasFile
  /\ fileSize > 26214400
  /\ pc = "thrown"
  /\ error.message = <<"API", "key", "is", "required">>

\* C17: whatever leaves transcribeAudio as a failure is a plain object with
\* a message and a type among api_error, file_error, network_error,
\* validation_error; never an Error instance.
C17_FailuresAreStructured ==
  (entry = "transcribeAudio" /\ pc = "thrown") =>
    /\ error.cls = "object"
    /\ error.type \in ErrorTypes
    /\ error.message # <<>>

C17_Witness ==
  /\ entry = "transcribeAudio"
  /\ pc = "thrown"
  /\ Len(responses) = 1
  /\ responses[1].index = -1
  /\ responses[1].resp.kind = "malformed"
  /\ error.type = "validation_error"

\* helper of C19
ChunkResponses == SelectSeq(responses, LAMBDA r : r.index >= 0)

\* C19: the chunk calls are submitted one at a time in index order: the
\* call for the next chunk is submitted only when every earlier call has
\* settled, so at most one chunk call is in flight.
C19_OneChunkCallAtATime ==
  /\ Len(ChunkCalls) - Len(ChunkResponses) \in {0, 1}
  /\ (Len(ChunkCalls) - Len(ChunkResponses) = 1) <=> (pc = "b_fetch")
  /\ \A k \in 1..(Len(ChunkCalls) - 1) : ChunkCalls[k].index < ChunkCalls[k + 1].index
  /\ \A j \in 1..Len(ChunkResponses) : ChunkResponses[j].index = ChunkCalls[j].index

C19_Witness ==
  /\ pc = "b_fetch"
  /\ Len(ChunkCalls) = 3
  /\ Len(ChunkResponses) = 2
  /\ ChunkCalls[3].index = 2

\* helper of C20
CompressionRouteEvents ==
  << Event("analyzing", 0, 1, 0, 1), Event("processing", 0, 1, 25, 1),
     Event("processing", 0, 1, 50, 1), Event("processing", 0, 1, 75, 1),
     Event("combining", 1, 1, 90, 1), Event("combining", 1, 1, 100, 1) >>

\* C20: a compression-route run in which compression and the call succeed
\* delivers exactly (analyzing, 0), (processing, 25), (processing, 50),
\* (processing, 75), (combining, 90), (combining, 100), all with
\* totalChunks = 1, and the last one only after the remote call returned.
C20_CompressionRouteEvents ==
  (compression = "succeeded" /\ ~batchEntered) =>
    /\ pc \in {"c_fetch", "returned"}
    /\ pc = "c_fetch" =>
         (responses = <<>> /\ events = SubSeq(CompressionRouteEvents, 1, 5))
    /\ pc = "returned" =>
         /\ Len(responses) = 1
         /\ responses[1].resp.kind = "ok"
         /\ events = CompressionRouteEvents
         /\ \A k \in 1..Len(events) : events[k].phase # "chunking"

C20_Witness ==
  /\ compression = "succeeded"
  /\ pc = "returned"
  /\ Len(events) = 6
  /\ result = <<"a">>

\* helpers of C18: what an invocation with the frame v has when it runs
\* alone, as a function of its own file and of the outcomes of its own
\* requests. The chunk set is the one chunkAudioFile makes of its file,
\* from the moment the file was split.
ChunksAlone(v) ==
  IF \/ v.pc \in {"b_chunks", "b_fetch", "returned"} /\ v.batchEntered
     \/ v.pc = "thrown" /\ \E k \in 1..Len(v.responses) : v.responses[k].index >= 0
  THEN chunkAudioFile(v.fileSize, v.maxChunkSize, v.duration)
  ELSE <<>>

\* the transcript list after the requests settled so far: chunk by chunk,
\* the empty string for a chunk under MinChunkBytes, the text or the empty
\* string of a tolerated failure for a settled request, up to the first
\* chunk whose request is open or failed
RECURSIVE TranscriptsFrom(_, _, _)
TranscriptsFrom(k, chs, resps) ==
  IF k > Len(chs) THEN <<>>
  ELSE IF chs[k].bytes < MinChunkBytes
  THEN << <<>> >> \o TranscriptsFrom(k + 1, chs, resps)
  ELSE LET settled == SelectSeq(resps, LAMBDA r : r.index = chs[k].index)
       IN IF settled = <<>> THEN <<>>
          ELSE IF settled[1].resp.kind = "ok"
          THEN <<transcribeSingleFileText(settled[1].resp)>>
               \o TranscriptsFrom(k + 1, chs, resps)
          ELSE IF isFormatError(transcribeSingleFileError(settled[1].resp))
          THEN << <<>> >> \o TranscriptsFrom(k + 1, chs, resps)
          ELSE <<>>

TranscriptsAlone(v) == TranscriptsFrom(1, v.chunks, v.responses)

\* the events of the chunk loop: one per request of a chunk that settled
\* with a text or a tolerated failure, in the order they settled
LoopEventsAlone(v) ==
  LET n == Len(v.chunks)
      done == SelectSeq(v.responses,
                LAMBDA r : /\ r.index >= 0
                           /\ \/ r.resp.kind = "ok"
                              \/ isFormatError(transcribeSingleFileError(r.resp)))
  IN [k \in 1..Len(done) |->
        Event("processing", done[k].index + 1, n,
              processingProgress(done[k].index, n).num,
              processingProgress(done[k].index, n).den)]

\* the events delivered to the callback of v are those of its own file:
\* the events of the compression route first, then the chunking events of
\* its own chunk count and the loop events of its own requests
EventsAlone(v) ==
  LET n == estimatedChunks(v.fileSize, v.maxChunkSize)
      first == IF v.batchEntered THEN v.batchFirstEvent ELSE Len(v.events) + 1
      batch == SubSeq(v.events, first, Len(v.events))
  IN /\ SubSeq(v.events, 1, first - 1) = SubSeq(CompressionRouteEvents, 1, first - 1)
     /\ \A k \in 1..Len(batch) : batch[k].totalChunks \in {0, n}
     /\ SelectSeq(batch, LAMBDA e : e.phase = "chunking" /\ e.currentChunk >= 1)
          = (IF v.chunks # <<>> THEN chunkingEvents(n) ELSE <<>>)
     /\ SelectSeq(batch, LAMBDA e : e.phase = "processing" /\ e.currentChunk >= 1)
          = LoopEventsAlone(v)

AsIfAlone(v) ==
  /\ v.chunks = ChunksAlone(v)
  /\ v.transcriptions = TranscriptsAlone(v)
  /\ EventsAlone(v)

\* C18: two transcribeAudio invocations on different files that run
\* concurrently on the shared openAIService share no mutable state: under
\* any interleaving, the chunk set, the transcript list and the progress
\* events of each invocation are what its own file and the outcomes of its
\* own requests give when it runs alone; a step of one invocation leaves
\* everything of the other as it is, and an invocation resumes with
\* exactly what it had when it was suspended.
C18_InvocationsShareNoState ==
  /\ [](suspended # NoFrame => (AsIfAlone(Frame) /\ AsIfAlone(suspended)))
  /\ [][\/ suspended' = suspended
        \/ (Frame' = suspended /\ suspended' = Frame)]_vars

\* both invocations went through the chunk loop, their requests
\* alternating, and both returned
C18_Witness ==
  /\ suspended # NoFrame
  /\ pc = "returned"
  /\ suspended.pc = "returned"
  /\ Len(chunks) = 2
  /\ Len(suspended.chunks) = 3
  /\ Len(transcriptions) = 2
  /\ Len(suspended.transcriptions) = 3
  /\ startTime < suspended.lastEstimate.now
  /\ suspended.startTime < lastEstimate.now
  /\ lastEstimate.now < suspended.lastEstimate.now

\* helpers of C21: comparison of two numbers of seconds; NaN equals
\* nothing and is below nothing, every finite number is below Infinity
FracEq(p, q) == p # NaN /\ q # NaN /\ p.num * q.den = q.num * p.den

FracLess(p, q) == p # NaN /\ q # NaN /\ p.num * q.den < q.num * p.den

\* C21: for a file of total duration D split by chunkAudioFile into N
\* chunks, chunk i has index i, duration D / N and startTime i * (D / N);
\* every chunk including the last has the same nominal duration whatever
\* its byte length, and the start times strictly increase with the index.
C21_StartTimesStrictlyIncrease ==
  (entry = "chunkAudioFile" /\ pc = "returned") =>
    LET n == Len(chunks)
    IN /\ \A k \in 1..n :
            /\ chunks[k].index = k - 1
            /\ FracEq(chunks[k].duration,
                      [num |-> duration.num, den |-> duration.den * n])
            /\ FracEq(chunks[k].startTime,
                      [num |-> (k - 1) * duration.num, den |-> duration.den * n])
            /\ FracEq(chunks[k].duration, chunks[n].duration)
       /\ \A k \in 1..(n - 1) :
            FracLess(chunks[k].startTime, chunks[k + 1].startTime)

\* C23: every chunk chunkAudioFile(file, M) returns, the last one included,
\* has at most M bytes.
C23_ChunksWithinLimit ==
  (entry = "chunkAudioFile" /\ pc = "returned") =>
    \A k \in 1..Len(chunks) : chunks[k].bytes <= maxChunkSize

\* C24: on the compression route the re-encoded file is submitted as a
\* single request only when its size is at most maxFileSize.
C24_CompressedSubmittedOnlyIfSmall ==
  (compression = "succeeded" /\ Len(calls) >= 1 /\ calls[1].index = -1) =>
    calls[1].bytes <= maxFileSize

\* helper of C29: no whitespace at either end, no two whitespace
\* characters in a row
NormalForm(s) ==
  /\ s # <<>> => (s[1] \notin WS /\ s[Len(s)] \notin WS)
  /\ \A k \in 1..(Len(s) - 1) : ~(s[k] \in WS /\ s[k + 1] \in WS)

\* C29: the string combineChunkResults returns is in normal form (no
\* whitespace at either end, no two adjacent whitespace characters), and
\* combining a single chunk whose transcript is that string returns it
\* unchanged.
C29_CombineNormalForm ==
  (entry = "combineChunkResults" /\ pc = "returned") =>
    /\ NormalForm(result)
    /\ combineChunkResults(<<IndexedChunk(0)>>, <<result>>) = result

C29_Witness ==
  /\ entry = "combineChunkResults"
  /\ pc = "returned"
  /\ Len(transcriptions) = 2
  /\ transcriptions[1] = <<" ", "a", " ", " ", "b", " ">>
  /\ transcriptions[2] = <<"x", "\n", "y">>
  /\ result = <<"a", " ", "b", " ", "x", " ", "y">>

\* C22: the estimatedTimeRemaining of the event emitted after chunk i of N
\* is the least integer not below (elapsed / (i+1)) * (N - (i+1)), elapsed
\* being the seconds since the batch started; it is never negative, and it
\* is 0 in the event emitted after the last chunk.
C22_EstimateIsCeilOfAverage ==
  lastEstimate # NoEstimate =>
    LET n == Len(chunks)
        done == lastEstimate.currentChunk
        elapsed == lastEstimate.now - startTime
        eta == lastEstimate.estimatedTimeRemaining
    IN /\ done \in 1..n
       /\ elapsed >= 0
       /\ eta >= 0
       /\ eta * 1000 * done >= elapsed * (n - done)
       /\ (eta - 1) * 1000 * done < elapsed * (n - done)
       /\ done = n => eta = 0

\* helpers of C25
CompressionAttempts ==
  Len(SelectSeq(events, LAMBDA e : e = Event("analyzing", 0, 1, 0, 1)))

ChunkingPasses ==
  Len(SelectSeq(events, LAMBDA e : e = Event("analyzing", 0, 0, 0, 1)))

WholeFileCalls == SelectSeq(calls, LAMBDA c : c.index = -1)

OneCallPerChunk ==
  \A a, b \in 1..Len(ChunkCalls) :
     ChunkCalls[a].index = ChunkCalls[b].index => a = b

\* C25: if every external call eventually returns or fails, a
\* transcribeAudio invocation eventually returns or throws, and on the way
\* it starts at most one compression attempt and at most one chunking pass
\* and submits at most one request per chunk (and one for the whole or the
\* compressed file).
C25_InvocationTerminates ==
  /\ <>Terminal
  /\ [](/\ CompressionAttempts <= 1
        /\ ChunkingPasses <= 1
        /\ Len(WholeFileCalls) <= 1
        /\ OneCallPerChunk
        /\ Len(ChunkCalls) <= Len(chunks))

C25_Witness ==
  /\ pc = "returned"
  /\ CompressionAttempts = 1
  /\ compression = "succeeded"
  /\ Len(WholeFileCalls) = 1
  /\ ChunkingPasses = 1
  /\ Len(ChunkCalls) = 3

\* C26: the list persisted through storage.saveResults equals the results
\* of useTranscription after any sequence of result operations.
C26_PersistedEqualsResults ==
  entry = "App" => getResults(localStorage) = state.results

\* C27: under any interleaving of transcribeAudio invocations, their
\* progress callbacks and their completions, whenever isLoading is false
\* batchProgress is undefined.
C27_NoProgressWhenIdle ==
  (entry = "App" /\ ~state.isLoading) => state.batchProgress = NoProgress

\* helpers of C28: the step in which the transcription of invocation t
\* resolves puts its result at the head of results and persists the list,
\* and the step in which its generateSummary fails returns and changes
\* nothing else
ResultPrepended(t) ==
  (invocations[t].pc = "transcribing" /\ invocations'[t].pc = "summary") =>
    /\ state'.results # <<>>
    /\ Head(state'.results).id = invocations'[t].resultId
    /\ Head(state'.results).summary = NoSummary
    /\ Tail(state'.results) = state.results
    /\ getResults(localStorage') = state'.results

SummaryFailureHarmless(t) ==
  (invocations[t].pc = "summary" /\ invocations'[t].summaryFailed) =>
    /\ invocations'[t].pc = "returned"
    /\ state' = state
    /\ localStorage' = localStorage
    /\ ~isGeneratingSummary'

\* C28: when the transcription resolves, its result is put at the head of
\* results and persisted in the step that starts the summary generation;
\* when generateSummary fails the call returns without throwing, results,
\* storage and error are left as they were, and isGeneratingSummary is
\* false again.
C28_SummaryFailureKeepsResult ==
  [][\A t \in 1..MaxInvocations :
       ResultPrepended(t) /\ SummaryFailureHarmless(t)]_vars

\* C30: when the summary of a transcription or a regenerated summary
\* arrives for a result that removeResult or clearResults removed while it
\* was awaited, neither results nor the persisted results contain that
\* result's id.
C30_DeletedNotReAdded ==
  [][\A t \in 1..MaxInvocations :
       ( /\ invocations[t].pc \in {"summary", "regenerating"}
         /\ invocations'[t].pc = "returned"
         /\ ~invocations'[t].summaryFailed
         /\ invocations[t].resultId \in deleted ) =>
           /\ invocations[t].resultId \notin ResultIds(state'.results)
           /\ invocations[t].resultId \notin ResultIds(getResults(localStorage'))]_vars

====
